---- MODULE Spec2Model ----
(***************************************************************************)
(* A model of dyndesign's class builder (dyndesign/classbuilder): the      *)
(* registry of configured base classes, the normalisation of class         *)
(* configurations, the build of a class from building options, and the     *)
(* injection of components when methods of built classes execute.          *)
(***************************************************************************)
EXTENDS Integers, Sequences, FiniteSets, TLC

(***************************************************************************)
(* Bounds of the model.                                                    *)
(***************************************************************************)
MaxBuilds == 2
MaxObjs == 2
MaxCalls == 2
MaxDepth == 3
MaxArgs == 2

(***************************************************************************)
(* Python values.  An option value carries its type in a prefix, so that   *)
(* str() is a real conversion: the integer 1 and the string "1" are two    *)
(* values with one string form.                                            *)
(***************************************************************************)
NONE == "None"
PyTrue == "b:True"
PyFalse == "b:False"

Str(v) ==
  CASE v = "b:True" -> "True"
    [] v = "b:False" -> "False"
    [] v = "None" -> "None"
    [] v = "i:1" -> "1"
    [] v = "s:1" -> "1"
    [] v = "s:X" -> "X"
    [] v = "s:Y" -> "Y"
    [] v = "s:Z" -> "Z"
    [] OTHER -> v

Truthy(v) == v \notin {"None", "b:False", "i:0", "s:"}

SWITCH_KEY_SEPARATOR == "_#=_"
SWITCH_DEFAULT == "_#!_SWITCH_DEFAULT"

get_switch_key(key, option) == key \o SWITCH_KEY_SEPARATOR \o Str(option)

(***************************************************************************)
(* Ordered dictionaries (Python dict keeps insertion order): sequences of  *)
(* entries with distinct keys.                                             *)
(***************************************************************************)
DictKeys(d) == [i \in 1..Len(d) |-> d[i].key]
DictKeySet(d) == {d[i].key : i \in 1..Len(d)}
DictHas(d, k) == \E i \in 1..Len(d) : d[i].key = k
DictIdx(d, k) == CHOOSE i \in 1..Len(d) : d[i].key = k
DictSet(d, e) == IF DictHas(d, e.key) THEN [d EXCEPT ![DictIdx(d, e.key)] = e] ELSE Append(d, e)
DictPop(d, k) == SelectSeq(d, LAMBDA e : e.key # k)

SeqToSet(s) == {s[i] : i \in 1..Len(s)}
IndexOf(s, x) == IF \E i \in 1..Len(s) : s[i] = x THEN CHOOSE i \in 1..Len(s) : s[i] = x /\ \A j \in 1..(i-1) : s[j] # x ELSE 0

(***************************************************************************)
(* ClassConfig / DependencyConfiguration: the attributes of one dependency *)
(* record.  inherit_from is kept as a tuple (empty when not set).          *)
(***************************************************************************)
ClassConfig ==
  [inherit_from |-> <<>>, component_class |-> NONE, default_class |-> NONE,
   component_attr |-> NONE, injection_method |-> NONE,
   add_components_after_method |-> NONE, strict_missing_args |-> NONE,
   selected_option |-> NONE, must_be_added |-> FALSE, is_option_selected |-> NONE,
   init_args_keep_first |-> NONE, init_args_from_option |-> NONE, init_args_from_self |-> <<>>,
   structured_component_type |-> NONE, structured_component_key |-> NONE]

InheritFrom(classes, default) == [ClassConfig EXCEPT !.inherit_from = classes, !.default_class = default]
ComponentOf(class, attr, default) == [ClassConfig EXCEPT !.component_class = class, !.component_attr = attr, !.default_class = default]

\* validate_class_config: "" when the record is admitted, the exception otherwise
validate_class_config(class_config) ==
  IF class_config.inherit_from = <<>> /\ class_config.component_class = NONE THEN "ClassConfigMissingDependency"
  ELSE IF class_config.inherit_from # <<>> /\ class_config.component_class # NONE THEN "ClassConfigDependencyOverflow"
  ELSE ""

(***************************************************************************)
(* The global configuration: the defaults of settings.py merged with the   *)
(* keyword arguments of the dynconfig decorator.                           *)
(***************************************************************************)
CLASS_BUILDER_DEFAULT_CONFIG ==
  [build_recursively |-> PyTrue, option_order |-> <<>>, default_class |-> NONE,
   component_attr |-> NONE, injection_method |-> "__init__",
   add_components_after_method |-> PyFalse, strict_missing_args |-> PyTrue]

\* DYNDESIGN_LOCAL_CONFIG of a unit; NONE marks a setting the unit leaves alone
NoLocalConfig ==
  [default_class |-> NONE, component_attr |-> NONE, injection_method |-> NONE,
   add_components_after_method |-> NONE, strict_missing_args |-> NONE]

(***************************************************************************)
(* Entries of a unit's dependencies: a single record, a tuple of records,  *)
(* or a switch (a mapping from case value to record).                      *)
(***************************************************************************)
RecEntry(k, r) == [key |-> k, kind |-> "rec", recs |-> <<r>>, cases |-> <<>>]
TupleEntry(k, rs) == [key |-> k, kind |-> "tuple", recs |-> rs, cases |-> <<>>]
SwitchEntry(k, cs) == [key |-> k, kind |-> "switch", recs |-> <<>>, cases |-> cs]
Case(v, r) == [case |-> v, rec |-> r]

RECURSIVE transform_switch_cases(_, _, _, _)
transform_switch_cases(acc, dep_key, cases, i) ==
  IF i > Len(cases) THEN acc
  ELSE IF cases[i].case = SWITCH_DEFAULT
    THEN transform_switch_cases([cc |-> DictSet(acc.cc, RecEntry(dep_key, cases[i].rec)),
                                 ds |-> acc.ds \cup {dep_key}],
                                dep_key, cases, i + 1)
  ELSE transform_switch_cases([cc |-> DictSet(acc.cc, RecEntry(get_switch_key(dep_key, cases[i].case), cases[i].rec)),
                               ds |-> acc.ds],
                              dep_key, cases, i + 1)

RECURSIVE transform_switches_from(_, _, _)
transform_switches_from(acc, copy, i) ==
  IF i > Len(copy) THEN acc
  ELSE IF copy[i].kind # "switch" THEN transform_switches_from(acc, copy, i + 1)
  ELSE LET dep_key == copy[i].key
           pop(a1) == IF DictHas(a1.cc, dep_key) /\ a1.cc[DictIdx(a1.cc, dep_key)].kind = "switch"
                      THEN [a1 EXCEPT !.cc = DictPop(a1.cc, dep_key)] ELSE a1
       IN transform_switches_from(pop(transform_switch_cases(acc, dep_key, copy[i].cases, 1)), copy, i + 1)

\* [cc |-> the transformed dependencies, ds |-> the default switches]
transform_switches(class_config, default_switches) ==
  transform_switches_from([cc |-> class_config, ds |-> default_switches], class_config, 1)

RECURSIVE InsertByIndex(_, _, _)
InsertByIndex(sorted, k, order) ==
  IF sorted = <<>> THEN <<k>>
  ELSE IF IndexOf(order, k) < IndexOf(order, Head(sorted)) THEN <<k>> \o sorted
  ELSE <<Head(sorted)>> \o InsertByIndex(Tail(sorted), k, order)

RECURSIVE SortedByIndex(_, _)
SortedByIndex(keys, order) ==
  IF keys = <<>> THEN <<>>
  ELSE InsertByIndex(SortedByIndex(SubSeq(keys, 1, Len(keys) - 1), order), keys[Len(keys)], order)

\* a populate_dependency_keys that leaves the keys in source order
unsorted_dependency_keys(dependencies, option_order) == DictKeys(dependencies)

\* ClassConfigurationUnit.populate_dependency_keys
populate_dependency_keys(dependencies, option_order) ==
  IF option_order # <<>> THEN SortedByIndex(DictKeys(dependencies), option_order)
  ELSE DictKeys(dependencies)

\* a unit as the user writes it
RawUnit(deps, local) == [dependencies |-> deps, local_config |-> local]

RECURSIVE process_class_config(_, _, _, _)
process_class_config(units, global_conf, acc, u) ==
  IF u > Len(units) THEN acc
  ELSE LET unit(t) == [dependencies |-> t.cc,
                       dependency_keys |-> populate_dependency_keys(t.cc, global_conf.option_order),
                       local_config |-> units[u].local_config]
           add(t) == [acc EXCEPT !.class_configs = Append(@, unit(t)), !.default_switches = t.ds]
       IN process_class_config(units, global_conf,
                               add(transform_switches(units[u].dependencies, acc.default_switches)), u + 1)

\* ClassConfigurationManager.__init__
ClassConfigurationManager(global_config, class_configs) ==
  process_class_config(class_configs, global_config,
    [class_configs |-> <<>>, default_switches |-> {}, global_conf |-> global_config], 1)

(***************************************************************************)
(* The classes of the model.  bases: the statically declared superclasses; *)
(* methods: the methods written in the class body; marker: the methods     *)
(* whose body calls dynconfig.inject_components; init_req: the number of   *)
(* positional parameters (after self) of the class's own __init__;         *)
(* init_raises: an error other than a missing argument that the            *)
(* constructor raises.                                                     *)
(***************************************************************************)
PyClass(bases, methods, marker, init_req, init_raises) ==
  [bases |-> bases, methods |-> methods, marker |-> marker, init_req |-> init_req, init_raises |-> init_raises]

ClassInfo ==
  [c \in {"A", "B", "C", "D", "E", "P2", "Q2", "F", "O", "OS", "N", "OA", "Y"} |->
    CASE c = "A" -> PyClass(<<>>, {"__init__", "m1", "m2"}, {}, 0, "")
      [] c = "B" -> PyClass(<<>>, {"__init__", "m1", "m3"}, {}, 1, "")
      [] c = "C" -> PyClass(<<>>, {"m2", "m3"}, {}, 0, "")
      [] c = "D" -> PyClass(<<>>, {"__init__"}, {}, 0, "")
      [] c = "E" -> PyClass(<<>>, {"__init__"}, {}, 0, "ValueError")
      [] c = "P2" -> PyClass(<<>>, {"__init__"}, {}, 2, "")
      [] c = "Q2" -> PyClass(<<"P2">>, {}, {}, 0, "")
      [] c = "F" -> PyClass(<<>>, {"__init__", "m1", "m4"}, {}, 1, "")
      [] c = "O" -> PyClass(<<>>, {"__init__", "m", "mk"}, {"mk"}, 1, "")
      [] c = "OS" -> PyClass(<<"F">>, {"__init__", "m"}, {}, 1, "")
      [] c = "N" -> PyClass(<<>>, {"__init__"}, {}, 1, "")
      [] c = "OA" -> PyClass(<<>>, {"__init__", "m"}, {}, 2, "")
      [] c = "Y" -> PyClass(<<>>, {"__init__", "mk"}, {"mk"}, 1, "")]

\* the attributes the body of method m of class c assigns on self:
\* self.a1 = param1; self.a2 = param2; self.a2_alt = Cr.BASE_PARAM_2_ALT
body_attrs(c, m, args) ==
  IF c = "OA" /\ m = "__init__"
  THEN [a \in {"a1", "a2", "a2_alt"} |-> IF a = "a1" THEN args[1] ELSE IF a = "a2" THEN args[2] ELSE "BASE_PARAM_2_ALT"]
  ELSE [a \in {} |-> 0]

\* the class whose composite the body of method m of class c asks for with
\* self.comp_base = dynconfig.buildcomponent(F)(param1), NONE when the body has no such statement
nested_component(c, m) == IF c = "N" /\ m = "__init__" THEN "F" ELSE NONE

ClassNames == DOMAIN ClassInfo

\* a class object: id = 0 for a class written in the source, id = k for the k-th class created by type()
Orig(c) == [n |-> c, id |-> 0]
NoClass == [n |-> NONE, id |-> 0]

\* the class of the static hierarchy of c (c first) in which method m is written, NONE when only object has it
RECURSIVE FindDefinerIn(_, _)
FindDefinerIn(cs, m) ==
  IF cs = <<>> THEN NONE
  ELSE IF m \in ClassInfo[Head(cs)].methods THEN Head(cs)
  ELSE LET orElse(up) == IF up # NONE THEN up ELSE FindDefinerIn(Tail(cs), m)
       IN orElse(FindDefinerIn(ClassInfo[Head(cs)].bases, m))

FindDefiner(c, m) == FindDefinerIn(<<c>>, m)

\* hasattr(base_class, name): every class has object's __init__
HasAttr(c, name) == name = "__init__" \/ FindDefiner(c, name) # NONE

\* is_invoking_method_in_one_line(getattr(base_class, method), "dynconfig.inject_components")
is_invoking_method_in_one_line(c, m) ==
  FindDefiner(c, m) # NONE /\ m \in ClassInfo[FindDefiner(c, m)].marker

\* positional parameters after self of method m as written in class c
MethodReq(c, m) == IF m = "__init__" THEN ClassInfo[c].init_req ELSE 0

(***************************************************************************)
(* The program state threaded through the operators below is the record S  *)
(* of all the variables of the program.                                    *)
(***************************************************************************)

\* get_default_global_config(dependency_config, "default_class"): a or b
get_default_class(manager, class_config) ==
  IF Truthy(class_config.default_class) THEN class_config.default_class
  ELSE manager.global_conf.default_class

\* get_global_setting: DependencyConfiguration.__getattr__ never fails, so the record's own value is returned
get_global_setting(manager, dependency_config, key) == dependency_config[key]

\* set_default_global_config: the unit's local settings overwrite the global ones
set_default_global_config(global_conf, local_config) ==
  [k \in DOMAIN global_conf |->
     IF k \in DOMAIN local_config /\ local_config[k] # NONE THEN local_config[k] ELSE global_conf[k]]

\* DependencyConfiguration.set_default_class_config: unset attributes take the global values
set_default_class_config(rec, defaults) ==
  [k \in DOMAIN rec |->
     IF k \in (DOMAIN defaults \ {"build_recursively", "option_order"})
          /\ (IF k = "inherit_from" THEN rec[k] = <<>> ELSE rec[k] = NONE)
     THEN defaults[k] ELSE rec[k]]

\* a validate_component_configuration that admits every record
admit_component_configuration(rec, base_class) == ""

\* validate_component_configuration: "" when valid
validate_component_configuration(rec, base_class) ==
  IF ~Truthy(rec.component_attr) THEN "ClassConfigMissingComponentAttr"
  ELSE IF ~HasAttr(base_class, rec.injection_method) THEN "ClassConfigMissingComponentInjectionMethod"
  ELSE ""

\* ClassStorage.is_already_built
is_already_built(S, class_to_build) ==
  class_to_build.id \in S.classes_built \/ ~(class_to_build.id = 0 /\ class_to_build.n \in DOMAIN S.config_map)

\* the dependency keys that are functions of option names
PredAnd == "lambda opt1, flag: opt1 and flag"
PredSelX == "lambda sel: sel == 'X'"
PredicateKeys == {PredAnd, PredSelX}
\* get_arguments(dependency_key).args
func_args(dependency_key) == IF dependency_key = PredAnd THEN <<"opt1", "flag">> ELSE <<"sel">>
\* dependency_key(*args)
ApplyKey(dependency_key, args) ==
  IF dependency_key = PredAnd THEN (IF Truthy(args[1]) THEN args[2] ELSE args[1])
  ELSE IF args[1] = "s:X" THEN PyTrue ELSE PyFalse
\* getattr(base_class, name, None): a class attribute, a method, or None
ClassAttr(base_class, name) ==
  IF base_class = "O" /\ name = "flag" THEN PyTrue
  ELSE IF FindDefiner(base_class, name) # NONE THEN "function"
  ELSE NONE

\* ClassBuilder.__is_option_selected
is_option_selected(S, b, dependency_key) ==
  LET options == S.dicts[S.config_map[b].CLASS_OPTIONS]
      get(f_arg) == IF f_arg \in DOMAIN options THEN options[f_arg] ELSE ClassAttr(b, f_arg)
  IN IF dependency_key \in PredicateKeys
     THEN Truthy(ApplyKey(dependency_key, [i \in 1..Len(func_args(dependency_key)) |-> get(func_args(dependency_key)[i])]))
     ELSE IF dependency_key \in DOMAIN options THEN Truthy(options[dependency_key]) ELSE FALSE

DepEntry(unit, key) == unit.dependencies[DictIdx(unit.dependencies, key)]
\* tuplefy(config_unit.dependencies[key]); dependencies is a defaultdict(list)
DepRecs(unit, key) == IF DictHas(unit.dependencies, key) THEN DepEntry(unit, key).recs ELSE <<>>

(***************************************************************************)
(* ClassBuilder: the build of a class.  Every operator returns the new     *)
(* program state S together with exc, the exception that ended it ("" when *)
(* it returned normally), and val, its result.                             *)
(***************************************************************************)
Ok(S) == [S |-> S, exc |-> "", val |-> NoClass]
Fail(S, e) == [S |-> S, exc |-> e, val |-> NoClass]
Ret(S, v) == [S |-> S, exc |-> "", val |-> v]

\* ParentClassBuilder.__init__
ParentClassBuilder(base_class) ==
  [parent_classes |-> <<base_class>> \o ClassInfo[base_class].bases, parent_classes_configured |-> <<>>]

\* ComponentClassBuilder.__init__
ComponentClassBuilder(base_class) ==
  [base_class |-> base_class, COMPONENTS_APPLIED |-> {}, args |-> <<>>,
   methods_to_patch |-> <<>>, patched_methods |-> <<>>]

\* ClassBuilder.__setup_class_configuration
setup_class_configuration(S, b, options) ==
  [S EXCEPT !.component_builders = Append(@, ComponentClassBuilder(b)),
            !.config_map[b].CLASS_OPTIONS = options,
            !.config_map[b].parent_class_builder = ParentClassBuilder(b),
            !.config_map[b].component_class_builder = Len(S.component_builders) + 1]

\* ParentClassBuilder.select_parent_classes
select_parent_classes(S, b, parent_classes) ==
  [S EXCEPT !.config_map[b].parent_class_builder.parent_classes = @ \o parent_classes]

\* ComponentClassBuilder.select_component_class, on the record j of key in unit u
select_component_class(S, b, u, key, j) ==
  LET mgr == S.config_map[b].config_manager
      ei == DictIdx(mgr.class_configs[u].dependencies, key)
      cb == S.config_map[b].component_class_builder
      mtp == S.component_builders[cb].methods_to_patch
      e(m) == IF DictHas(mtp, m) THEN [key |-> m, keys |-> Append(mtp[DictIdx(mtp, m)].keys, key)]
              ELSE [key |-> m, keys |-> <<key>>]
      S1(rec) == [S EXCEPT !.config_map[b].config_manager.class_configs[u].dependencies[ei].recs[j] = rec]
      checked(rec, v) ==
        IF v # "" THEN Fail(S1(rec), v)
        ELSE Ok([S EXCEPT !.config_map[b].config_manager.class_configs[u].dependencies[ei].recs[j] = rec,
                          !.component_builders[cb].methods_to_patch = DictSet(mtp, e(rec.injection_method))])
      select(rec) == checked(rec, validate_component_configuration(rec, b))
  IN select(set_default_class_config(mgr.class_configs[u].dependencies[ei].recs[j], mgr.global_conf))

\* a __prepare_class_dependency that adds the supertypes of a record whether or not its key is selected
always_prepare_class_dependency(S, b, u, dependency_key, j, selected) ==
  LET mgr == S.config_map[b].config_manager
      dependency_config == DepRecs(mgr.class_configs[u], dependency_key)[j]
  IN IF dependency_config.inherit_from # <<>>
     THEN Ok(select_parent_classes(S, b, dependency_config.inherit_from))
     ELSE Ok(S)

\* ClassBuilder.__prepare_class_dependency
prepare_class_dependency(S, b, u, dependency_key, j, selected) ==
  LET mgr == S.config_map[b].config_manager
      ei == DictIdx(mgr.class_configs[u].dependencies, dependency_key)
      dependency_config == mgr.class_configs[u].dependencies[ei].recs[j]
      prepare(default_class) ==
        IF ~(selected \/ Truthy(default_class)) THEN Ok(S)
        ELSE IF dependency_config.inherit_from # <<>>
          THEN Ok(select_parent_classes(S, b, IF selected THEN dependency_config.inherit_from ELSE <<default_class>>))
        ELSE IF dependency_config.component_class # NONE
          THEN select_component_class(
                 [S EXCEPT !.config_map[b].config_manager.class_configs[u].dependencies[ei].recs[j].is_option_selected =
                             IF selected THEN PyTrue ELSE PyFalse],
                 b, u, dependency_key, j)
        ELSE Fail(S, "ClassConfigMissingDependency")
  IN prepare(get_default_class(mgr, dependency_config))

RECURSIVE prepare_records(_, _, _, _, _, _)
prepare_records(S, b, u, dependency_key, j, selected) ==
  IF j > Len(DepRecs(S.config_map[b].config_manager.class_configs[u], dependency_key)) THEN Ok(S)
  ELSE LET next(r) == IF r.exc # "" THEN r ELSE prepare_records(r.S, b, u, dependency_key, j + 1, selected)
       IN next(prepare_class_dependency(S, b, u, dependency_key, j, selected))

RECURSIVE prepare_keys(_, _, _, _)
prepare_keys(S, b, u, ki) ==
  LET keys == S.config_map[b].config_manager.class_configs[u].dependency_keys
      next(r) == IF r.exc # "" THEN r ELSE prepare_keys(r.S, b, u, ki + 1)
  IN IF ki > Len(keys) THEN Ok(S)
     ELSE next(prepare_records(S, b, u, keys[ki], 1, is_option_selected(S, b, keys[ki])))

RECURSIVE prepare_units(_, _, _)
prepare_units(S, b, u) ==
  LET mgr == S.config_map[b].config_manager
      next(r) == IF r.exc # "" THEN r ELSE prepare_units(r.S, b, u + 1)
  IN IF u > Len(mgr.class_configs) THEN Ok(S)
     ELSE next(prepare_keys([S EXCEPT !.config_map[b].config_manager.global_conf =
                                        set_default_global_config(@, mgr.class_configs[u].local_config)],
                            b, u, 1))

\* ClassBuilder.__prepare_class_dependencies
prepare_class_dependencies(S, b) == prepare_units(S, b, 1)

\* ComponentClassBuilder.__patch_method / __has_components_explicitly_injected, for every method to patch
RECURSIVE inject_components_before_or_after_methods(_, _, _)
inject_components_before_or_after_methods(S, cb, i) ==
  LET mtp == S.component_builders[cb].methods_to_patch
      patch(method, explicit) ==
        [S EXCEPT !.component_builders[cb].patched_methods =
                     DictSet(@, [key |-> method, kind |-> IF explicit THEN "original" ELSE "patched",
                                 keys |-> mtp[i].keys]),
                  !.explicit_method_injection = IF explicit THEN (method :> mtp[i].keys) @@ @ ELSE @]
  IN IF i > Len(mtp) THEN S
     ELSE inject_components_before_or_after_methods(
            patch(mtp[i].key, is_invoking_method_in_one_line(S.component_builders[cb].base_class, mtp[i].key)),
            cb, i + 1)

RECURSIVE configure_class(_, _, _, _)
RECURSIVE configure_dependent_class(_, _, _, _)
RECURSIVE configure_parents_from(_, _, _, _, _)

\* ClassBuilder.__configure_dependent_class; fuel bounds the depth of the recursion
configure_dependent_class(S, b, dependent_class, fuel) ==
  IF dependent_class \notin ClassNames THEN Fail(S, "DynConfigWrongClassType")
  ELSE IF ~Truthy(S.config_map[b].config_manager.global_conf.build_recursively)
          \/ dependent_class = b
          \/ is_already_built(S, Orig(dependent_class))
    THEN Ret(S, Orig(dependent_class))
  ELSE IF fuel = 0 THEN Fail(S, "RecursionError")
  ELSE configure_class(S, dependent_class, S.config_map[b].CLASS_OPTIONS, fuel - 1)

\* a configure_parent_classes that hands the configured classes over in reverse
RECURSIVE reversed_parents_from(_, _, _, _, _)
reversed_parents_from(S, b, pcs, acc, fuel) ==
  IF pcs = <<>> THEN [S |-> S, exc |-> "", val |-> acc]
  ELSE LET next(r) == IF r.exc # "" THEN [S |-> r.S, exc |-> r.exc, val |-> <<>>]
                      ELSE reversed_parents_from(r.S, b, Tail(pcs), <<r.val>> \o acc, fuel)
       IN next(configure_dependent_class(S, b, Head(pcs), fuel))

\* ParentClassBuilder.configure_parent_classes: val is the tuple built so far
configure_parents_from(S, b, pcs, acc, fuel) ==
  IF pcs = <<>> THEN [S |-> S, exc |-> "", val |-> acc]
  ELSE LET next(r) == IF r.exc # "" THEN [S |-> r.S, exc |-> r.exc, val |-> <<>>]
                      ELSE configure_parents_from(r.S, b, Tail(pcs), Append(acc, r.val), fuel)
       IN next(configure_dependent_class(S, b, Head(pcs), fuel))

\* ClassBuilder.configure_class; the class created by type() is appended to built_types
configure_class(S, b, options, fuel) ==
  LET new_type(S4, cb) ==
        [n |-> b, cb |-> cb,
         bases |-> S4.config_map[b].parent_class_builder.parent_classes_configured,
         patched_methods |-> S4.component_builders[cb].patched_methods,
         parent_classes |-> S4.config_map[b].parent_class_builder.parent_classes,
         options |-> S4.dicts[options]]
      create(S4, cb) ==
        Ret([S4 EXCEPT !.built_types = Append(@, new_type(S4, cb))], [n |-> b, id |-> Len(S4.built_types) + 1])
      patch(S3) ==
        create(inject_components_before_or_after_methods(S3, S3.config_map[b].component_class_builder, 1),
               S3.config_map[b].component_class_builder)
      configured(r3) ==
        IF r3.exc # "" THEN Fail(r3.S, r3.exc)
        ELSE patch([r3.S EXCEPT !.config_map[b].parent_class_builder.parent_classes_configured = r3.val])
      prepared(r2) ==
        IF r2.exc # "" THEN Fail(r2.S, r2.exc)
        ELSE configured(configure_parents_from(r2.S, b, r2.S.config_map[b].parent_class_builder.parent_classes,
                                               <<>>, fuel))
  IN prepared(prepare_class_dependencies(setup_class_configuration(S, b, options), b))

(***************************************************************************)
(* Building options.  A dict of options is a function from option names to *)
(* values; the dicts live in a heap (dicts) because the builder keeps and  *)
(* changes the very dict the caller passes.                                *)
(***************************************************************************)
Restrict(f, D) == [k \in D |-> f[k]]

RECURSIVE SetToSeq(_)
SetToSeq(s) == IF s = {} THEN <<>> ELSE LET x == CHOOSE y \in s : TRUE IN <<x>> \o SetToSeq(s \ {x})

all_keys(manager) ==
  UNION {DictKeySet(manager.class_configs[u].dependencies) : u \in 1..Len(manager.class_configs)}

RECURSIVE transform_options_from(_, _, _, _)
transform_options_from(manager, acc, copy, items) ==
  IF items = <<>> THEN acc
  ELSE LET opt_key == Head(items)
           step(compound_key) ==
             IF compound_key \in all_keys(manager)
             THEN transform_options_from(manager,
                    [options |-> Restrict((compound_key :> PyTrue) @@ acc.options,
                                          (DOMAIN acc.options \cup {compound_key}) \ {opt_key}),
                     switches_to_add |-> acc.switches_to_add \cup {opt_key}],
                    copy, Tail(items))
             ELSE transform_options_from(manager, acc, copy, Tail(items))
       IN step(get_switch_key(opt_key, copy[opt_key]))

\* ClassConfigurationManager.transform_options: the dict after the call
transform_options(manager, options) ==
  LET result(acc, defaults) ==
        [k \in DOMAIN acc.options \cup defaults |-> IF k \in defaults THEN PyTrue ELSE acc.options[k]]
      add_defaults(acc) == result(acc, manager.default_switches \ acc.switches_to_add)
  IN add_defaults(transform_options_from(manager, [options |-> options, switches_to_add |-> {}],
                                         options, SetToSeq(DOMAIN options)))

\* DynamicConfiguration.build_class with the dict d of the heap as options and kw_options as keyword options:
\* __process_options updates the dict, the dict is stored under the class name, the builder builds
build_class(S, base_class, d, kw_options) ==
  LET built(r) == IF r.exc # "" THEN r
                  ELSE Ret([r.S EXCEPT !.classes_built = @ \cup {r.val.id}], r.val)
      process_options(S0) == [S0 EXCEPT !.dicts[d] = kw_options @@ @]
      stored(S1) == [S1 EXCEPT !.class_option_map = (base_class :> d) @@ @]
      build(S2) ==
        IF base_class \notin DOMAIN S2.config_map THEN Fail(S2, "KeyError")
        ELSE built(configure_class(
                     [S2 EXCEPT !.dicts[d] = transform_options(S2.config_map[base_class].config_manager, @)],
                     base_class, d, MaxDepth))
  IN build(stored(process_options(S)))

(***************************************************************************)
(* Instances and the execution of methods.  objs is the heap of instances; *)
(* trace records what the execution did, in order.                         *)
(***************************************************************************)
NoPath == [u |-> 0, key |-> "", j |-> 0]
Event(e, obj, m) == [e |-> e, obj |-> obj, m |-> m, pos |-> "", attr |-> "", cls |-> NoClass,
                     seen |-> {}, rec |-> NoPath, args |-> <<>>]
Log(S, ev) == [S EXCEPT !.trace = Append(@, ev)]

MissingArgs(c, m, legacy) == IF legacy THEN "TypeError: " \o m \o "() missing" ELSE "TypeError: " \o c \o "." \o m \o "() missing"
TooManyArgs == "TypeError: takes fewer positional arguments"
AllMethods == UNION {ClassInfo[c].methods : c \in ClassNames}
IsTypeError(e) == e = TooManyArgs \/ \E c \in ClassNames, m \in AllMethods, l \in BOOLEAN : e = MissingArgs(c, m, l)

\* __is_missing_arguments_exception for a class instance: re.match anchors at the start of the message
is_missing_arguments_exception(exception, instance) ==
  exception \in {"TypeError: __init__() missing", "TypeError: " \o instance.n \o ".__init__() missing"}

Prefix(s, n) == SubSeq(s, 1, IF Len(s) < n THEN Len(s) ELSE n)

\* how name m resolves on class cls: kind is "none", "plain" (the body written in class c) or "patched"
RECURSIVE FindMethod(_, _, _)
RECURSIVE FindMethodIn(_, _, _)
FindMethodIn(S, cs, m) ==
  IF cs = <<>> THEN [kind |-> "none", c |-> NONE, cb |-> 0, keys |-> <<>>]
  ELSE LET orElse(f) == IF f.kind # "none" THEN f ELSE FindMethodIn(S, Tail(cs), m)
       IN orElse(FindMethod(S, Head(cs), m))

FindMethod(S, cls, m) ==
  LET written(d) == [kind |-> IF d = NONE THEN "none" ELSE "plain", c |-> d, cb |-> 0, keys |-> <<>>]
      patched(t, pm) == IF pm.kind = "patched" THEN [kind |-> "patched", c |-> t.n, cb |-> t.cb, keys |-> pm.keys]
                        ELSE written(FindDefiner(t.n, m))
      created(t) == IF DictHas(t.patched_methods, m)
                    THEN patched(t, t.patched_methods[DictIdx(t.patched_methods, m)])
                    ELSE FindMethodIn(S, t.bases, m)
  IN IF cls.id = 0 THEN written(FindDefiner(cls.n, m))
     ELSE created(S.built_types[cls.id])

\* ComponentClassBuilder.__is_the_right_injection_position
is_the_right_injection_position(manager, component_config, position) ==
  \/ position = "MIDDLE"
  \/ (position = "BEFORE") # Truthy(get_global_setting(manager, component_config, "add_components_after_method"))

Triple(component_config, method) ==
  [cls |-> component_config.component_class, method |-> method, attr |-> component_config.component_attr]

\* an __is_component_already_applied that forgets what was applied
never_applied(builder, component_config, method) == FALSE

\* ComponentClassBuilder.__is_component_already_applied
is_component_already_applied(builder, component_config, method) ==
  Triple(component_config, method) \in builder.COMPONENTS_APPLIED

\* ComponentClassBuilder.__is_component_to_inject
is_component_to_inject(manager, builder, component_config, position, method) ==
  /\ is_the_right_injection_position(manager, component_config, position)
  /\ Truthy(component_config.injection_method)
  /\ method = component_config.injection_method
  /\ ~is_component_already_applied(builder, component_config, method)

RECURSIVE call_method(_, _, _, _, _)
RECURSIVE run_body(_, _, _, _, _, _)
RECURSIVE instantiate(_, _, _, _)
RECURSIVE call_class_with_adapted_args(_, _, _, _, _)
RECURSIVE init_component(_, _, _, _, _)
RECURSIVE add_component(_, _, _, _, _, _, _, _, _)
RECURSIVE add_key_components_from(_, _, _, _, _, _, _, _, _, _)
RECURSIVE patched_method(_, _, _, _, _, _, _)
RECURSIVE inject_components(_, _, _, _, _)

\* ComponentClassBuilder.__set_arguments
set_arguments(S, cb, args) == [S EXCEPT !.component_builders[cb].args = args]

\* cls(*args): a new object, then its __init__
instantiate(S, cls, args, fuel) ==
  IF fuel = 0 THEN Fail(S, "RecursionError")
  ELSE LET id == Len(S.objs) + 1
           created(r) == IF r.exc # "" THEN r ELSE Ret(r.S, id)
       IN created(call_method([S EXCEPT !.objs = Append(@, [cls |-> cls, attrs |-> [a \in {} |-> 0]])],
                              id, "__init__", args, fuel - 1))

\* inspect.getfullargspec(func): args without the receiver, whether *args and **kwargs are taken,
\* the keyword-only parameters and those of them that have a default
FullArgSpec(args, varargs, kwonlyargs, kwonlydefaults, varkw) ==
  [args |-> args, varargs |-> varargs, kwonlyargs |-> kwonlyargs, kwonlydefaults |-> kwonlydefaults,
   varkw |-> varkw]

\* the loop of adapt_arguments over func_args, from parameter i on
RECURSIVE fill_func_args(_, _, _)
fill_func_args(params, i, acc) ==
  IF i > Len(params) THEN acc
  ELSE fill_func_args(params, i + 1,
         IF params[i] \in DOMAIN acc.kwargs
           THEN [res_args |-> Append(acc.res_args, acc.kwargs[params[i]]),
                 kwargs |-> [k \in DOMAIN acc.kwargs \ {params[i]} |-> acc.kwargs[k]],
                 arg_deque |-> acc.arg_deque]
         ELSE IF acc.arg_deque # <<>>
           THEN [acc EXCEPT !.res_args = Append(@, Head(acc.arg_deque)), !.arg_deque = Tail(@)]
         ELSE acc)

\* adapt_arguments(func, *args, **kwargs) for a callable of signature init_specs
adapt_arguments_kw(init_specs, args, kwargs) ==
  LET filtered(t) ==
        [res_args |-> t.res_args,
         res_kwargs |-> IF init_specs.varkw THEN t.kwargs
                        ELSE [k \in DOMAIN t.kwargs \cap init_specs.kwonlydefaults |-> t.kwargs[k]]]
  IN filtered(IF init_specs.varargs THEN [res_args |-> args, kwargs |-> kwargs, arg_deque |-> <<>>]
              ELSE fill_func_args(init_specs.args, 1, [res_args |-> <<>>, kwargs |-> kwargs, arg_deque |-> args]))

\* adapt_arguments for a class: a patched __init__ takes *args, a written one its own parameters
adapt_arguments(S, cls, args) ==
  LET adapt(f) == IF f.kind = "patched" THEN args
                  ELSE IF f.kind = "plain" THEN Prefix(args, MethodReq(f.c, "__init__"))
                  ELSE <<>>
  IN adapt(FindMethod(S, cls, "__init__"))

\* call_obj_with_adapted_args(instance, None, *args, strict_missing_args=...): val = 0 stands for None
call_class_with_adapted_args(S, cls, args, strict_missing_args, fuel) ==
  LET called(r) ==
        IF r.exc = "" THEN r
        ELSE IF IsTypeError(r.exc) /\ ~strict_missing_args /\ is_missing_arguments_exception(r.exc, cls)
          THEN Ret(r.S, 0)
        ELSE r
  IN called(instantiate(S, cls, adapt_arguments(S, cls, args), fuel))

IntOf(v) == CASE v = "i:0" -> 0 [] v = "i:1" -> 1 [] v = "i:2" -> 2 [] v = "i:3" -> 3

\* ComponentClassBuilder.__init_component: add_args, the positional arguments offered to the component
component_add_args(S, cb, component_config, obj) ==
  LET from_self(add_args) ==
        add_args \o
          [i \in 1..Len(SelectSeq(component_config.init_args_from_self,
                                   LAMBDA arg_name : arg_name \in DOMAIN S.objs[obj].attrs)) |->
             S.objs[obj].attrs[SelectSeq(component_config.init_args_from_self,
                                         LAMBDA arg_name : arg_name \in DOMAIN S.objs[obj].attrs)[i]]]
      from_option(add_args) ==
        from_self(IF Truthy(component_config.init_args_from_option)
                  THEN <<component_config.selected_option>> \o add_args ELSE add_args)
      keep_first(add_args) ==
        from_option(IF Truthy(component_config.init_args_keep_first)
                    THEN Prefix(add_args, IntOf(component_config.init_args_keep_first)) ELSE add_args)
  IN keep_first(S.component_builders[cb].args)

\* ComponentClassBuilder.__init_component
init_component(S, cb, component_config, obj, fuel) ==
  LET b == S.component_builders[cb].base_class
      mgr == S.config_map[b].config_manager
      add_args == component_add_args(S, cb, component_config, obj)
      component_class == IF component_config.must_be_added THEN component_config.component_class
                         ELSE get_default_class(mgr, component_config)
      init(r) == IF r.exc # "" THEN r
                 ELSE call_class_with_adapted_args(r.S, r.val, add_args,
                                                   Truthy(component_config.strict_missing_args), fuel)
  IN init(configure_dependent_class(S, b, component_class, fuel))

\* bool(struct_component) for what getattr(obj, component_attr, None) gives: an empty list or dict is false
IsTrueAttr(S, obj, attr) ==
  /\ attr \in DOMAIN S.objs[obj].attrs
  /\ (S.objs[S.objs[obj].attrs[attr]].cls.n \in {"list", "dict"} =>
        DOMAIN S.objs[S.objs[obj].attrs[attr]].attrs # {})

\* ComponentClassBuilder.__add_instance_to_structure: invoke_first_method on a list or a dict; with a
\* key the methods tried are __setitem__ and __setattr__, without one append and add
add_instance_to_structure(S, struct_component, key, component_instance) ==
  LET kind == S.objs[struct_component].cls.n
  IN IF Truthy(key)
     THEN IF kind = "dict"
          THEN Ret([S EXCEPT !.objs[struct_component].attrs = (key :> component_instance) @@ @], struct_component)
          ELSE Fail(S, "TypeError: list indices must be integers")
     ELSE IF kind = "list"
          THEN Ret([S EXCEPT !.objs[struct_component].attrs = Append(@, component_instance)], struct_component)
          ELSE Fail(S, "StructuredTypeError")

\* ComponentClassBuilder.__init_structured_component: val is what the attribute is set to
init_structured_component(S, component_instance, obj, component_config) ==
  LET structured_component_type == component_config.structured_component_type
      empty == IF structured_component_type = "list" THEN <<>> ELSE [a \in {} |-> 0]
  IN IF ~Truthy(structured_component_type) THEN Ret(S, component_instance)
     ELSE IF IsTrueAttr(S, obj, component_config.component_attr)
       THEN add_instance_to_structure(S, S.objs[obj].attrs[component_config.component_attr],
                                      component_config.structured_component_key, component_instance)
     ELSE add_instance_to_structure(
            [S EXCEPT !.objs = Append(@, [cls |-> Orig(structured_component_type), attrs |-> empty])],
            Len(S.objs) + 1, component_config.structured_component_key, component_instance)

\* ComponentClassBuilder.__add_component for record j of key in unit u
add_component(S, cb, u, key, j, obj, method, position, fuel) ==
  LET b == S.component_builders[cb].base_class
      mgr == S.config_map[b].config_manager
      component_config == DepRecs(mgr.class_configs[u], key)[j]
      attach(component_instance, r) ==
        IF r.exc # "" THEN r
        ELSE Ok(Log([r.S EXCEPT !.objs[obj].attrs = (component_config.component_attr :> r.val) @@ @,
                                !.component_builders[cb].COMPONENTS_APPLIED =
                                   @ \cup {Triple(component_config, method)},
                                !.injections = Append(@, [cb |-> cb, triple |-> Triple(component_config, method),
                                                          obj |-> obj])],
                    [Event("inject", obj, method) EXCEPT !.pos = position,
                        !.attr = component_config.component_attr, !.cls = r.S.objs[component_instance].cls,
                        !.args = component_add_args(S, cb, component_config, obj),
                        !.rec = [u |-> u, key |-> key, j |-> j]]))
      set(r) ==
        IF r.exc # "" THEN r
        ELSE IF r.val = 0 THEN Ok(r.S)
        ELSE attach(r.val, init_structured_component(r.S, r.val, obj, component_config))
  IN IF ~is_component_to_inject(mgr, S.component_builders[cb], component_config, position, method) THEN Ok(S)
     ELSE set(init_component(S, cb, component_config, obj, fuel))

\* ComponentClassBuilder.__add_key_components: the loops over keys, units and records
add_key_components_from(S, cb, dependency_keys, ki, u, j, obj, method, position, fuel) ==
  LET mgr == S.config_map[S.component_builders[cb].base_class].config_manager
      next(r) == IF r.exc # "" THEN r
                 ELSE add_key_components_from(r.S, cb, dependency_keys, ki, u, j + 1, obj, method, position, fuel)
  IN IF ki > Len(dependency_keys) THEN Ok(S)
     ELSE IF u > Len(mgr.class_configs)
       THEN add_key_components_from(S, cb, dependency_keys, ki + 1, 1, 1, obj, method, position, fuel)
     ELSE IF j > Len(DepRecs(mgr.class_configs[u], dependency_keys[ki]))
       THEN add_key_components_from(S, cb, dependency_keys, ki, u + 1, 1, obj, method, position, fuel)
     ELSE next(add_component(S, cb, u, dependency_keys[ki], j, obj, method, position, fuel))

add_key_components(S, cb, dependency_keys, obj, method, position, fuel) ==
  add_key_components_from(S, cb, dependency_keys, 1, 1, 1, obj, method, position, fuel)

\* ComponentClassBuilder.explicitly_inject_components
explicitly_inject_components(S, cb, obj, method, args, fuel) ==
  IF method \notin DOMAIN S.explicit_method_injection THEN Fail(S, "KeyError")
  ELSE add_key_components(set_arguments(S, cb, args), cb, S.explicit_method_injection[method],
                          obj, method, "MIDDLE", fuel)

\* DynamicConfiguration.inject_components, called from the body of method of obj
inject_components(S, obj, method, args, fuel) ==
  LET cls == S.objs[obj].cls
  IN IF cls.id \notin S.classes_built THEN Fail(S, "KeyError")
     ELSE explicitly_inject_components(S, S.config_map[S.built_types[cls.id].n].component_class_builder,
                                       obj, method, args, fuel)

\* DynamicConfiguration.buildcomponent called from a method running on obj: the options are looked
\* up under the name of the class of obj
buildcomponent(S, obj, base_class) ==
  IF S.objs[obj].cls.n \notin DOMAIN S.class_option_map THEN Ret(S, Orig(base_class))
  ELSE build_class(S, base_class, S.class_option_map[S.objs[obj].cls.n], [k \in {} |-> NONE])

\* self.comp_base = dynconfig.buildcomponent(F)(param1)
assign_nested_component(S, obj, m, base_class, args, fuel) ==
  LET assigned(r) ==
        IF r.exc # "" THEN r
        ELSE Ok([r.S EXCEPT !.objs[obj].attrs = ("comp_base" :> r.val) @@ @])
      built(r) ==
        IF r.exc # "" THEN r
        ELSE assigned(instantiate(Log(r.S, [Event("buildcomponent", obj, m) EXCEPT !.cls = r.val]),
                                  r.val, args, fuel))
  IN built(buildcomponent(S, obj, base_class))

\* the body of method m as written in class c, executed on obj
run_body(S, obj, c, m, args, fuel) ==
  LET finish(r) ==
        IF r.exc # "" THEN r
        ELSE Ret(Log(r.S, [Event("body_end", obj, m) EXCEPT !.cls = Orig(c), !.seen = DOMAIN r.S.objs[obj].attrs]),
                 c \o "." \o m)
      run(S1) ==
        IF m = "__init__" /\ ClassInfo[c].init_raises # "" THEN Fail(S1, ClassInfo[c].init_raises)
        ELSE finish(IF nested_component(c, m) # NONE
                      THEN assign_nested_component(S1, obj, m, nested_component(c, m), args, fuel)
                    ELSE IF m \in ClassInfo[c].marker THEN inject_components(S1, obj, m, args, fuel)
                    ELSE Ok(S1))
  IN run(Log([S EXCEPT !.objs[obj].attrs = body_attrs(c, m, args) @@ @],
             [Event("body_start", obj, m) EXCEPT !.cls = Orig(c), !.seen = DOMAIN S.objs[obj].attrs]))

\* ComponentClassBuilder.__invoke_injection_method
invoke_injection_method(S, cb, method, obj, fuel) ==
  LET invoke(c) ==
        IF c = NONE THEN Ret(S, NONE)
        ELSE IF Len(S.component_builders[cb].args) < MethodReq(c, method)
          THEN Fail(S, MissingArgs(c, method, S.legacy_messages))
        ELSE run_body(S, obj, c, method, Prefix(S.component_builders[cb].args, MethodReq(c, method)), fuel)
  IN invoke(FindDefiner(S.component_builders[cb].base_class, method))

\* patched_method of ComponentClassBuilder.__patch_method
patched_method(S, cb, dependency_keys, obj, method, args, fuel) ==
  LET after(r2, r3) == IF r3.exc # "" THEN r3 ELSE Ret(r3.S, r2.val)
      body(r2) == IF r2.exc # "" THEN r2
                  ELSE after(r2, add_key_components(r2.S, cb, dependency_keys, obj, method, "AFTER", fuel))
      before(r1) == IF r1.exc # "" THEN r1
                    ELSE body(invoke_injection_method(r1.S, cb, method, obj, fuel))
  IN before(add_key_components(set_arguments(S, cb, args), cb, dependency_keys, obj, method, "BEFORE", fuel))

\* obj.m(*args)
call_method(S, obj, m, args, fuel) ==
  LET call(f) ==
        IF f.kind = "patched" THEN patched_method(S, f.cb, f.keys, obj, m, args, fuel)
        ELSE IF f.kind = "plain"
          THEN IF Len(args) < MethodReq(f.c, m) THEN Fail(S, MissingArgs(f.c, m, S.legacy_messages))
               ELSE IF Len(args) > MethodReq(f.c, m) THEN Fail(S, TooManyArgs)
               ELSE run_body(S, obj, f.c, m, args, fuel)
        ELSE IF m # "__init__" THEN Fail(S, "AttributeError")
        ELSE IF args # <<>> THEN Fail(S, TooManyArgs)
        ELSE Ret(S, NONE)
  IN call(FindMethod(S, S.objs[obj].cls, m))

(***************************************************************************)
(* Registration: the dynconfig class decorator.                            *)
(***************************************************************************)
\* DynamicConfiguration.__init__: the global configuration of one decorator
GlobalConfig(build_recursively, option_order) ==
  [CLASS_BUILDER_DEFAULT_CONFIG EXCEPT !.build_recursively = build_recursively, !.option_order = option_order]

\* ClassBuilder.__init__
ClassBuilder(base_class, config_manager) ==
  [config_manager |-> config_manager, CLASS_OPTIONS |-> 0,
   parent_class_builder |-> [parent_classes |-> <<>>, parent_classes_configured |-> <<>>],
   component_class_builder |-> 0]

\* DynamicConfiguration.__call__ on a class: reg is [class_configs, global_config]
dynconfig(base_class, reg) ==
  ClassBuilder(base_class, ClassConfigurationManager(reg.global_config, reg.class_configs))

Reg(units, global_config) == [class_configs |-> units, global_config |-> global_config]
Unit(deps) == RawUnit(deps, NoLocalConfig)
DefaultGlobal == GlobalConfig(PyTrue, <<>>)
\* DynamicConfiguration.__init__ takes any keyword: {**CLASS_BUILDER_DEFAULT_CONFIG, **global_config}
GlobalConfigWith(global_config, kwargs) == kwargs @@ global_config

(***************************************************************************)
(* The configurations and inputs explored: each world registers some base  *)
(* classes and names the classes built, the option sets, the arguments and *)
(* the methods called.                                                     *)
(***************************************************************************)
EmptyOpts == [k \in {} |-> NONE]
Opt1(v) == [k \in {"opt1"} |-> v]
Opt12(v, w) == [k \in {"opt1", "opt2"} |-> IF k = "opt1" THEN v ELSE w]
Sel(v) == [k \in {"sel"} |-> v]

World(reg, targets, optsets, argsets, methods) ==
  [reg |-> reg, targets |-> targets, optsets |-> optsets, argsets |-> argsets, methods |-> methods]

InheritAB == <<RecEntry("opt1", InheritFrom(<<"A">>, NONE)), RecEntry("opt2", InheritFrom(<<"B">>, NONE))>>
BoolOpts == {EmptyOpts, Opt1(PyTrue), Opt12(PyTrue, PyTrue), Opt12(PyFalse, PyTrue)}

FConfig == Reg(<<Unit(<<RecEntry("opt1", InheritFrom(<<"A">>, NONE))>>)>>, DefaultGlobal)

SwitchABC ==
  <<SwitchEntry("sel", <<Case("s:X", InheritFrom(<<"A">>, NONE)), Case("i:1", InheritFrom(<<"B">>, NONE)),
                         Case(SWITCH_DEFAULT, InheritFrom(<<"C">>, NONE))>>)>>

CompA(default) == ComponentOf("A", "comp", default)
CompAt(method, after, default) ==
  [CompA(default) EXCEPT !.injection_method = method, !.add_components_after_method = after]
Lenient(default, strict) == [CompA(default) EXCEPT !.strict_missing_args = strict]
OneRec(r) == <<Unit(<<RecEntry("opt1", r)>>)>>
OWorld(r, optsets, methods) == World([b \in {"O"} |-> Reg(OneRec(r), DefaultGlobal)], {"O"}, optsets, {<<"a">>}, methods)
OFWorld(r, recursively, methods) ==
  World([b \in {"O", "F"} |-> IF b = "F" THEN FConfig ELSE Reg(OneRec(r), GlobalConfig(recursively, <<>>))],
        {"O"}, {EmptyOpts, Opt1(PyTrue)}, {<<"a">>}, methods)
OnOff == {EmptyOpts, Opt1(PyTrue)}
\* two fragment records of one attribute under two keys
CompMulti(default1, default2, option_order) ==
  World([b \in {"O"} |-> Reg(<<Unit(<<RecEntry("opt1", ComponentOf("A", "comp", default1)),
                                      RecEntry("opt2", ComponentOf("B", "comp", default2))>>)>>,
                             GlobalConfig(PyTrue, option_order))],
        {"O"}, {Opt1(PyTrue), Opt12(PyTrue, PyTrue)}, {<<"a">>}, {"m"})
Off == {EmptyOpts, Opt1(PyFalse)}
\* two fragment records gathered in one container under the attribute of the global configuration
Structured(type, key1, key2, default1, default2) ==
  World([b \in {"O"} |->
           Reg(<<Unit(<<RecEntry("opt1", [ComponentOf("A", NONE, default1) EXCEPT !.structured_component_key = key1]),
                        RecEntry("opt2", [ComponentOf("B", NONE, default2) EXCEPT !.structured_component_key = key2])>>)>>,
               GlobalConfigWith(DefaultGlobal,
                                [k \in {"component_attr", "structured_component_type"} |->
                                   IF k = "component_attr" THEN "comp" ELSE type]))],
        {"O"}, {Opt1(PyTrue), Opt12(PyTrue, PyTrue)}, {<<"a">>}, {"m"})

WorldNames ==
  {"inherit", "inherit_order", "inherit_units", "inherit_default", "switch", "static", "static_flat",
   "comp", "comp_default", "comp_after", "comp_before", "comp_marker", "comp_marker_default",
   "rec", "rec_flat", "comp_rec", "comp_rec_flat", "lenient_P2", "lenient_Q2", "strict_P2", "lenient_E",
   "pred", "pred_switch", "kw", "comp_multi", "comp_multi_order", "comp_multi_default", "nested",
   "global_kind", "bad_attr", "bad_attr_default", "bad_method", "args_keep1", "args_keep0", "args_keep3",
   "comp_list", "comp_list_default", "comp_dict_default", "rec_cycle", "marker_two",
   "marker_xy", "units_local", "rec_switch"}

\* the programs where a missing-argument error is inspected: the only place its message is read
LenientWorlds == {"lenient_P2", "lenient_Q2", "strict_P2", "lenient_E"}

Worlds ==
  [w \in WorldNames |->
    CASE w = "inherit" ->
           World([b \in {"O"} |-> Reg(<<Unit(InheritAB)>>, DefaultGlobal)], {"O"}, BoolOpts, {<<"a">>}, {"m1"})
      [] w = "inherit_order" ->
           World([b \in {"O"} |-> Reg(<<Unit(InheritAB)>>, GlobalConfig(PyTrue, <<"opt2", "opt1">>))],
                 {"O"}, BoolOpts, {<<"a">>}, {})
      [] w = "inherit_units" ->
           World([b \in {"O"} |-> Reg(<<Unit(<<InheritAB[2]>>), Unit(<<InheritAB[1]>>)>>,
                                      GlobalConfig(PyTrue, <<"opt1", "opt2">>))],
                 {"O"}, BoolOpts, {<<"a">>}, {})
      [] w = "inherit_default" ->
           World([b \in {"O"} |-> Reg(<<Unit(<<RecEntry("opt1", InheritFrom(<<"A", "B">>, "C"))>>)>>, DefaultGlobal)],
                 {"O"}, {EmptyOpts, Opt1(PyTrue), Opt1(PyFalse)}, {<<"a">>}, {})
      [] w = "switch" ->
           World([b \in {"O"} |-> Reg(<<Unit(SwitchABC)>>, DefaultGlobal)],
                 {"O"}, {EmptyOpts, Sel("s:X"), Sel("i:1"), Sel("s:1"), Sel("s:Z")}, {<<"a">>}, {"m"})
      [] w = "static" ->
           World([b \in {"OS", "F"} |-> IF b = "F" THEN FConfig
                                         ELSE Reg(<<Unit(<<RecEntry("opt2", InheritFrom(<<"B">>, NONE))>>)>>, DefaultGlobal)],
                 {"OS"}, BoolOpts, {<<"a">>}, {})
      [] w = "static_flat" ->
           World([b \in {"OS", "F"} |-> IF b = "F" THEN FConfig
                                         ELSE Reg(<<Unit(<<RecEntry("opt2", InheritFrom(<<"B">>, NONE))>>)>>,
                                                  GlobalConfig(PyFalse, <<>>))],
                 {"OS"}, BoolOpts, {<<"a">>}, {})
      [] w = "comp" -> OWorld(CompA(NONE), OnOff, {"m"})
      [] w = "comp_default" -> OWorld(CompA("D"), OnOff, {"m"})
      [] w = "comp_after" -> OWorld(CompAt("m", PyTrue, "D"), OnOff, {"m"})
      [] w = "comp_before" -> OWorld(CompAt("m", NONE, "D"), OnOff, {"m"})
      [] w = "comp_marker" -> OWorld(CompAt("mk", NONE, NONE), OnOff, {"mk"})
      [] w = "comp_marker_default" -> OWorld(CompAt("mk", PyTrue, "D"), OnOff, {"mk"})
      [] w = "rec" -> OFWorld(InheritFrom(<<"F">>, NONE), PyTrue, {"m2"})
      [] w = "rec_flat" -> OFWorld(InheritFrom(<<"F">>, NONE), PyFalse, {})
      [] w = "comp_rec" -> OFWorld(ComponentOf("F", "comp", NONE), PyTrue, {})
      [] w = "comp_rec_flat" -> OFWorld(ComponentOf("F", "comp", NONE), PyFalse, {})
      [] w = "lenient_P2" -> OWorld(Lenient("P2", PyFalse), Off, {"m"})
      [] w = "lenient_Q2" -> OWorld(Lenient("Q2", PyFalse), Off, {"m"})
      [] w = "strict_P2" -> OWorld(Lenient("P2", NONE), Off, {"m"})
      [] w = "lenient_E" -> OWorld(Lenient("E", PyFalse), Off, {"m"})
      [] w = "comp_multi" -> CompMulti(NONE, NONE, <<>>)
      [] w = "comp_multi_order" -> CompMulti(NONE, NONE, <<"opt2", "opt1">>)
      [] w = "comp_multi_default" -> CompMulti("D", "C", <<>>)
      [] w = "nested" ->
           World([b \in {"N", "F"} |-> IF b = "F" THEN FConfig
                                        ELSE Reg(OneRec(ComponentOf("B", "comp", NONE)), DefaultGlobal)],
                 {"N"}, OnOff, {<<"a">>}, {"m1"})
      [] w = "global_kind" ->
           World([b \in {"O"} |-> Reg(OneRec(CompA("D")),
                                      GlobalConfigWith(DefaultGlobal, [k \in {"inherit_from"} |-> <<"B">>]))],
                 {"O"}, OnOff, {<<"a">>}, {"m1"})
      [] w = "bad_attr" -> OWorld(ComponentOf("A", NONE, NONE), OnOff, {"m"})
      [] w = "bad_attr_default" -> OWorld(ComponentOf("A", NONE, "D"), OnOff, {"m"})
      [] w = "bad_method" -> OWorld(CompAt("non_existent", NONE, NONE), OnOff, {"m"})
      [] w \in {"args_keep1", "args_keep0", "args_keep3"} ->
           World([b \in {"OA"} |->
                    Reg(<<RawUnit(<<RecEntry("opt1",
                                     [ComponentOf("P2", "comp", "P2") EXCEPT
                                        !.init_args_keep_first =
                                           IF w = "args_keep1" THEN "i:1" ELSE IF w = "args_keep0" THEN "i:0" ELSE "i:3",
                                        !.init_args_from_self = <<"a2_alt", "zz">>])>>,
                                  [NoLocalConfig EXCEPT !.add_components_after_method = PyTrue])>>,
                        DefaultGlobal)],
                 {"OA"}, OnOff, {<<"p", "q">>}, {"m"})
      [] w = "comp_list" -> Structured("list", NONE, NONE, NONE, NONE)
      [] w = "comp_list_default" -> Structured("list", NONE, NONE, "D", "C")
      [] w = "comp_dict_default" -> Structured("dict", "s:a", "s:b", "D", "C")
      [] w = "rec_cycle" ->
           World([b \in {"O", "F"} |-> Reg(OneRec(InheritFrom(<<IF b = "O" THEN "F" ELSE "O">>, NONE)), DefaultGlobal)],
                 {"O", "F"}, OnOff, {<<"a">>}, {"m1"})
      [] w = "marker_two" ->
           World([b \in {"O"} |->
                    Reg(<<Unit(<<RecEntry("opt1", CompAt("mk", NONE, "D")),
                                 RecEntry("opt2", [ComponentOf("B", "comp2", NONE) EXCEPT !.injection_method = "mk"])>>)>>,
                        DefaultGlobal)],
                 {"O"}, {EmptyOpts, Opt12(PyFalse, PyTrue)}, {<<"a">>}, {"mk"})
      [] w = "marker_xy" ->
           World([b \in {"O", "Y"} |->
                    Reg(<<Unit(<<RecEntry(IF b = "O" THEN "opt1" ELSE "opt2", CompAt("mk", NONE, "D"))>>)>>, DefaultGlobal)],
                 {"O", "Y"}, OnOff, {<<"a">>}, {"mk"})
      [] w = "units_local" ->
           World([b \in {"O"} |->
                    Reg(<<Unit(<<RecEntry("opt1", ComponentOf("A", "comp", NONE))>>),
                          RawUnit(<<RecEntry("opt2", ComponentOf("B", "comp2", NONE))>>,
                                  [NoLocalConfig EXCEPT !.default_class = "D"])>>,
                        DefaultGlobal)],
                 {"O"}, OnOff, {<<"a">>}, {"m"})
      [] w = "rec_switch" ->
           World([b \in {"O", "F"} |-> IF b = "F" THEN Reg(<<Unit(SwitchABC)>>, DefaultGlobal)
                                       ELSE Reg(OneRec(InheritFrom(<<"F">>, NONE)), DefaultGlobal)],
                 {"O", "F"}, {Opt1(PyTrue), Opt1(PyTrue) @@ Sel("s:X")}, {<<"a">>}, {"m1"})
      [] w = "kw" ->
           World([b \in {"O"} |-> Reg(<<Unit(InheritAB)>>, DefaultGlobal)], {"O"}, OnOff, {<<"a">>}, {"m1"})
      [] w = "pred" ->
           World([b \in {"O"} |-> Reg(<<Unit(<<RecEntry(PredAnd, InheritFrom(<<"A">>, NONE))>>)>>, DefaultGlobal)],
                 {"O"}, {EmptyOpts, Opt1(PyTrue), Opt1(PyFalse), [k \in {"opt1", "flag"} |-> IF k = "opt1" THEN PyTrue ELSE PyFalse]},
                 {<<"a">>}, {"m"})
      [] w = "pred_switch" ->
           World([b \in {"O"} |-> Reg(<<Unit(SwitchABC \o <<RecEntry(PredSelX, InheritFrom(<<"D">>, NONE))>>)>>,
                                      DefaultGlobal)],
                 {"O"}, {EmptyOpts, Sel("s:X"), Sel("s:Z")}, {<<"a">>}, {"m"})]

\* the keyword options the builds of a world pass
\* the keyword options the builds of a world pass
kw_optsets(w) == IF w = "kw" THEN {EmptyOpts, [k \in {"opt2"} |-> PyTrue]} ELSE {EmptyOpts}

(***************************************************************************)
(* The state.                                                              *)
(***************************************************************************)
VARIABLES
  world,                      \* the configuration registered when the program starts
  legacy_messages,            \* whether the interpreter names functions without their class in TypeError messages
  config_map,                 \* ClassStorage.config_map: base class -> ClassBuilder
  classes_built,              \* ClassStorage.classes_built: the built classes recorded
  class_option_map,           \* DynamicConfiguration.__CLASS_OPTION_MAP: class name -> options dict
  explicit_method_injection,  \* ComponentClassBuilder.__EXPLICIT_METHOD_INJECTION (one dict for all builders)
  component_builders,         \* the ComponentClassBuilder objects created so far
  built_types,                \* the classes created by type()
  dicts,                      \* the option dicts held by callers
  objs,                       \* the instances created
  trace,                      \* what the last operation did, in order
  injections,                 \* every attachment of a component made so far: builder, triple and object
  held,                       \* the instances the user's code holds
  last,                       \* the last operation and its outcome
  count,                      \* how many operations of each kind were performed
  adapted,                    \* a call of adapt_arguments: the callable, the arguments and the result
  running,                    \* the calls of buildclass in progress in each thread, and where each stands
  dyn                         \* the classes that inherit from DynInheritance: their __bases__ and attributes

program_vars == <<world, legacy_messages, config_map, classes_built, class_option_map, explicit_method_injection,
                  component_builders, built_types, dicts, objs, trace, injections, held, last, count>>
vars == <<program_vars, adapted, running, dyn>>

State ==
  [legacy_messages |-> legacy_messages, config_map |-> config_map, classes_built |-> classes_built,
   class_option_map |-> class_option_map, explicit_method_injection |-> explicit_method_injection,
   component_builders |-> component_builders, built_types |-> built_types, dicts |-> dicts, objs |-> objs,
   trace |-> <<>>, injections |-> injections]

SetState(S) ==
  /\ config_map' = S.config_map
  /\ classes_built' = S.classes_built
  /\ class_option_map' = S.class_option_map
  /\ explicit_method_injection' = S.explicit_method_injection
  /\ component_builders' = S.component_builders
  /\ built_types' = S.built_types
  /\ dicts' = S.dicts
  /\ objs' = S.objs
  /\ trace' = S.trace
  /\ injections' = S.injections
  /\ UNCHANGED <<world, legacy_messages, adapted, dyn>>

NoLast ==
  [op |-> "start", exc |-> "", base |-> NONE, dict |-> 0, given |-> EmptyOpts, kw |-> EmptyOpts, cls |-> NoClass, obj |-> 0,
   m |-> "", args |-> <<>>, ret |-> NONE]

NotAdapted == [done |-> FALSE]

(***************************************************************************)
(* Dynamic inheritance (dyndesign.dyninherit).  The classes are those of   *)
(* tests/samples/sample_classes_inheritance.py and DSub, a subclass of D.  *)
(***************************************************************************)
MaxOps == 3
\* the classes as their class statements define them, in the order of definition
DefinedBases ==
  "object" :> <<>> @@ "DynInheritanceBase" :> <<"object">> @@ "DynInheritance" :> <<"DynInheritanceBase">>
  @@ "A" :> <<"object">> @@ "C" :> <<"object">> @@ "B" :> <<"DynInheritance">>
  @@ "D" :> <<"DynInheritance", "A">> @@ "DSub" :> <<"D">>
DefinitionOrder == <<"B", "D", "DSub">>
DynMethods ==
  "object" :> {} @@ "DynInheritanceBase" :> {"dynparents_restore"} @@ "DynInheritance" :> {"_dyn_inherit_from"}
  @@ "A" :> {"m1", "m2"} @@ "C" :> {"m3"} @@ "B" :> {"m1"} @@ "D" :> {"m2"} @@ "DSub" :> {}
NoMro == [ok |-> FALSE, mro |-> <<>>]

\* the merge of the C3 linearisation
RECURSIVE c3_merge(_, _)
c3_merge(seqs, fuel) ==
  LET rest == SelectSeq(seqs, LAMBDA s : s # <<>>)
      good(h) == \A i \in 1..Len(rest) : h \notin SeqToSet(Tail(rest[i]))
      cands == {i \in 1..Len(rest) : good(Head(rest[i]))}
      drop(h) == [i \in 1..Len(rest) |-> IF Head(rest[i]) = h THEN Tail(rest[i]) ELSE rest[i]]
      next(h, m) == IF m.ok THEN [ok |-> TRUE, mro |-> <<h>> \o m.mro] ELSE m
      take(h) == next(h, c3_merge(drop(h), fuel - 1))
  IN IF rest = <<>> THEN [ok |-> TRUE, mro |-> <<>>]
     ELSE IF cands = {} \/ fuel = 0 THEN NoMro
     ELSE take(Head(rest[CHOOSE i \in cands : \A j \in cands : i <= j]))

\* type.mro(): the method resolution order of class c when the classes have the given bases
RECURSIVE mro_of(_, _, _)
mro_of(bases, c, fuel) ==
  LET merged(m) == IF m.ok THEN [ok |-> TRUE, mro |-> <<c>> \o m.mro] ELSE m
      next(lins) ==
        IF \E i \in 1..Len(lins) : ~lins[i].ok THEN NoMro
        ELSE merged(c3_merge([i \in 1..Len(lins) |-> lins[i].mro] \o <<bases[c]>>, 16))
  IN IF fuel = 0 THEN NoMro
     ELSE next([i \in 1..Len(bases[c]) |-> mro_of(bases, bases[c][i], fuel - 1)])

Mro(bases, c) == mro_of(bases, c, 6).mro
\* getattr(cls, name): the first class of the method resolution order that holds the attribute
FirstWith(bases, c, holders) ==
  LET m == Mro(bases, c)
      at == {i \in 1..Len(m) : m[i] \in holders}
  IN IF at = {} THEN NONE ELSE m[CHOOSE i \in at : \A j \in at : i <= j]
\* the class whose method m an instance of c runs
DynOwner(bases, c, m) == FirstWith(bases, c, {k \in DOMAIN DynMethods : m \in DynMethods[k]})
\* cls._initial_bases
initial_bases_of(D, c) == D.initial_bases[FirstWith(D.bases, c, DOMAIN D.initial_bases)]

\* cls.__bases__ = parent_classes (DynInheritance._dyn_inherit_from): the interpreter refuses an empty
\* tuple, a duplicate, an inheritance cycle and a tuple for which the class or one of its subclasses has
\* no consistent method resolution order, and then leaves the class as it is
dyn_inherit_from(D, c, parent_classes) ==
  LET nb == [D.bases EXCEPT ![c] = parent_classes]
      refused ==
        \/ parent_classes = <<>>
        \/ \E i, j \in 1..Len(parent_classes) : i # j /\ parent_classes[i] = parent_classes[j]
        \/ \E i \in 1..Len(parent_classes) : c \in SeqToSet(Mro(D.bases, parent_classes[i]))
        \/ \E k \in DOMAIN nb : ~mro_of(nb, k, 6).ok
  IN IF refused THEN [D EXCEPT !.exc = "TypeError"] ELSE [D EXCEPT !.bases = nb, !.exc = ""]

\* DynInheritanceBase._init_dyninherit_class, called by DynInheritance.__init_subclass__
init_dyninherit_class(D, c) ==
  IF initial_bases_of(D, c) = <<>> THEN [D EXCEPT !.initial_bases = (c :> D.bases[c]) @@ @] ELSE D

\* the class statements, in order: type() sets __bases__ and calls __init_subclass__
RECURSIVE define_classes(_, _)
define_classes(D, i) ==
  IF i > Len(DefinitionOrder) THEN D ELSE define_classes(init_dyninherit_class(D, DefinitionOrder[i]), i + 1)

DynStart ==
  define_classes([bases |-> DefinedBases, initial_bases |-> ("DynInheritanceBase" :> <<>>), exc |-> "",
                  op |-> "define", cls |-> NONE, ops |-> 0], 1)

\* the orders in which tuple(set(...)) may hand over the classes of a set
TuplesOf(set) == {s \in [1..Cardinality(set) -> set] : SeqToSet(s) = set}

Threads == {1, 2}
Idle == [pc |-> "idle", base |-> NONE, dict |-> 0, cls |-> NoClass]

InitProgram(W) ==
  /\ world \in W
  /\ legacy_messages \in IF world \in LenientWorlds THEN BOOLEAN ELSE {FALSE}
  /\ config_map = [b \in DOMAIN Worlds[world].reg |-> dynconfig(b, Worlds[world].reg[b])]
  /\ classes_built = {}
  /\ class_option_map = [n \in {} |-> 0]
  /\ explicit_method_injection = [m \in {} |-> <<>>]
  /\ component_builders = <<>>
  /\ built_types = <<>>
  /\ dicts = <<>>
  /\ objs = <<>>
  /\ trace = <<>>
  /\ injections = <<>>
  /\ held = {}
  /\ last = NoLast
  /\ count = [builds |-> 0, objs |-> 0, calls |-> 0]

InitIn(W) == InitProgram(W) /\ adapted = NotAdapted /\ running = [t \in Threads |-> Idle] /\ dyn = DynStart

\* buildclass(base_class, options, **kw): the caller passes a new dict holding given, or (given = dicts[d])
\* the dict d, and the keyword options kw
BuildClass(b, d, given, kw) ==
  /\ count.builds < MaxBuilds
  /\ LET done(r) ==
           /\ SetState(r.S)
           /\ last' = [NoLast EXCEPT !.op = "build", !.exc = r.exc, !.base = b, !.dict = d, !.given = given,
                                     !.kw = kw, !.cls = r.val]
     IN done(build_class(IF d > Len(dicts) THEN [State EXCEPT !.dicts = Append(@, given)] ELSE State, b, d, kw))
  /\ count' = [count EXCEPT !.builds = @ + 1]
  /\ UNCHANGED <<held, running>>

\* cls(*args) called by the user
NewInstance(cls, args) ==
  /\ count.objs < MaxObjs
  /\ LET done(r) ==
           /\ SetState(r.S)
           /\ last' = [NoLast EXCEPT !.op = "new", !.exc = r.exc, !.cls = cls, !.obj = Len(objs) + 1,
                                     !.m = "__init__", !.args = args]
           /\ held' = IF r.exc = "" THEN held \cup {r.val} ELSE held
     IN done(instantiate(State, cls, args, MaxDepth))
  /\ count' = [count EXCEPT !.objs = @ + 1]
  /\ UNCHANGED running

\* obj.m() called by the user
CallMethod(obj, m) ==
  /\ count.calls < MaxCalls
  /\ LET done(r) ==
           /\ SetState(r.S)
           /\ last' = [NoLast EXCEPT !.op = "call", !.exc = r.exc, !.cls = objs[obj].cls, !.obj = obj, !.m = m,
                                     !.ret = IF r.exc = "" THEN r.val ELSE NONE]
     IN done(call_method(State, obj, m, <<>>, MaxDepth))
  /\ count' = [count EXCEPT !.calls = @ + 1]
  /\ UNCHANGED <<held, running>>

\* the classes a user can instantiate: the registered targets themselves and the classes buildclass returned
UserClasses == {Orig(b) : b \in Worlds[world].targets} \cup {[n |-> built_types[i].n, id |-> i] : i \in classes_built}

\* the objects a user can call: those whose construction the user started and that completed
UserObjs == held

Next ==
  \/ \E b \in Worlds[world].targets :
       \/ \E given \in Worlds[world].optsets, kw \in kw_optsets(world) : BuildClass(b, Len(dicts) + 1, given, kw)
       \/ \E d \in 1..Len(dicts), kw \in kw_optsets(world) : BuildClass(b, d, dicts[d], kw)
  \/ \E cls \in UserClasses, args \in Worlds[world].argsets : NewInstance(cls, args)
  \/ \E obj \in UserObjs, m \in Worlds[world].methods : CallMethod(obj, m)

Spec == InitIn(DOMAIN Worlds) /\ [][Next]_vars

(***************************************************************************)
(* The configuration as the user wrote it, and the last operation.         *)
(***************************************************************************)
RawUnits(b) == Worlds[world].reg[b].class_configs
RawGlobal(b) == Worlds[world].reg[b].global_config
\* the records of b's configuration, each named by its unit, its key and its place under the key
RawRecs(b) ==
  UNION {UNION {{[u |-> u, key |-> RawUnits(b)[u].dependencies[i].key, j |-> j] :
                   j \in 1..Len(RawUnits(b)[u].dependencies[i].recs)} :
                i \in 1..Len(RawUnits(b)[u].dependencies)} :
         u \in 1..Len(RawUnits(b))}
RawRec(b, p) == DepRecs(RawUnits(b)[p.u], p.key)[p.j]
IsInherit(r) == r.inherit_from # <<>>
IsComponent(r) == r.component_class # NONE

Chosen(options, key) == key \in DOMAIN options /\ Truthy(options[key])
DefaultOf(b, r) == IF r.default_class # NONE THEN r.default_class ELSE RawGlobal(b).default_class
\* the activation rule: what record r under key contributes to a build with options
Activation(b, r, key, options) ==
  IF Chosen(options, key) THEN "explicit" ELSE IF DefaultOf(b, r) # NONE THEN "default" ELSE "nothing"
MethodOf(b, r) == IF r.injection_method # NONE THEN r.injection_method ELSE RawGlobal(b).injection_method

Built == last.op = "build" /\ last.exc = ""
LastType == built_types[last.cls.id]
DynamicParents(t) == SubSeq(t.parent_classes, 2 + Len(ClassInfo[t.n].bases), Len(t.parent_classes))
\* the first execution of the constructor of a class returned by buildclass
FirstNew == last.op = "new" /\ last.cls.id \in classes_built /\ count.objs = 1 /\ count.calls = 0
AttachedClass(obj, attr) ==
  IF attr \in DOMAIN objs[obj].attrs THEN objs[objs[obj].attrs[attr]].cls.n ELSE NONE

SpecActivation == InitIn({"inherit_default", "comp", "comp_default"}) /\ [][Next]_vars

\* C1: a record under a selected key contributes its explicit class, a record under an unselected key
\* contributes its default class when it has one and nothing otherwise, for supertype records (the
\* classes added to the supertype list of the build) and for fragment records (the class of the instance
\* attached when the injection method first executes) alike.
C1_ActivationRule ==
  /\ Built =>
       /\ \A p \in RawRecs(last.base) :
            LET r == RawRec(last.base, p)
                a == Activation(last.base, r, p.key, last.given)
            IN IsInherit(r) =>
                 /\ a = "explicit" => SeqToSet(r.inherit_from) \subseteq SeqToSet(DynamicParents(LastType))
                 /\ a = "default" => DefaultOf(last.base, r) \in SeqToSet(DynamicParents(LastType))
       /\ \A c \in SeqToSet(DynamicParents(LastType)) :
            \E p \in RawRecs(last.base) :
               LET r == RawRec(last.base, p)
                   a == Activation(last.base, r, p.key, last.given)
               IN \/ a = "explicit" /\ c \in SeqToSet(r.inherit_from)
                  \/ a = "default" /\ c = DefaultOf(last.base, r)
  /\ FirstNew =>
       \A p \in RawRecs(last.cls.n) :
          LET r == RawRec(last.cls.n, p)
              a == Activation(last.cls.n, r, p.key, LastType.options)
          IN IsComponent(r) /\ MethodOf(last.cls.n, r) = "__init__" =>
               AttachedClass(last.obj, r.component_attr) =
                  (IF a = "explicit" THEN r.component_class
                   ELSE IF a = "default" THEN DefaultOf(last.cls.n, r) ELSE NONE)

SpecSwitch == InitIn({"switch"}) /\ [][Next]_vars

RawEntries(b) ==
  UNION {{RawUnits(b)[u].dependencies[i] : i \in 1..Len(RawUnits(b)[u].dependencies)} : u \in 1..Len(RawUnits(b))}
\* the cases of switch e that the options select: the listed case equal to the option's value, else the default
EffectiveCases(e, options) ==
  LET listed == {i \in 1..Len(e.cases) :
                   /\ e.cases[i].case # SWITCH_DEFAULT
                   /\ e.key \in DOMAIN options
                   /\ options[e.key] = e.cases[i].case}
  IN IF listed # {} THEN listed ELSE {i \in 1..Len(e.cases) : e.cases[i].case = SWITCH_DEFAULT}

\* C2: of a switch with cases v1..vn and a default, a build takes the records of exactly one case when
\* the option's value equals a listed case, and exactly the default's records otherwise (value not
\* listed, or option omitted): never two cases, never a case together with the default.
C2_SwitchSelectsOne ==
  Built =>
    SeqToSet(DynamicParents(LastType)) =
      UNION {UNION {SeqToSet(e.cases[i].rec.inherit_from) : i \in EffectiveCases(e, last.given)} :
             e \in {x \in RawEntries(last.base) : x.kind = "switch"}}

SpecInherit ==
  InitIn({"inherit", "inherit_order", "inherit_units", "inherit_default", "static", "static_flat"}) /\ [][Next]_vars

BaseNames(t) == [i \in 1..Len(t.bases) |-> t.bases[i].n]
Reverse(s) == [i \in 1..Len(s) |-> s[Len(s) + 1 - i]]
\* the class whose body defines member m of the class cls
Owner(cls, m) == FindMethod(State, cls, m).c
\* K1 is evaluated before K2 in the build of b: in an earlier unit, or earlier in the keys of one unit
EvaluatedBefore(b, K1, K2) ==
  LET units == config_map[b].config_manager.class_configs
  IN \E u1, u2 \in 1..Len(units) :
       \E i1 \in 1..Len(units[u1].dependency_keys), i2 \in 1..Len(units[u2].dependency_keys) :
          /\ units[u1].dependency_keys[i1] = K1
          /\ units[u2].dependency_keys[i2] = K2
          /\ u1 < u2 \/ (u1 = u2 /\ i1 < i2)
\* two supertype records under two selected keys, the first evaluated before the second
TwoSelected(p1, p2) ==
  /\ Built
  /\ p1.key # p2.key
  /\ IsInherit(RawRec(last.base, p1)) /\ IsInherit(RawRec(last.base, p2))
  /\ Chosen(last.given, p1.key) /\ Chosen(last.given, p2.key)
  /\ EvaluatedBefore(last.base, p1.key, p2.key)
Shared(c1, c2) ==
  (ClassInfo[c1].methods \cap ClassInfo[c2].methods) \ {m \in AllMethods : HasAttr(last.base, m)}

\* C3 as stated: with K1 evaluated before K2 and both selected, the tuple handed to type() is the
\* accumulated list reversed, K2's class comes before K1's, and K2's members win (last-selected wins).
C3_LastSelectedWins ==
  Built => \A p1, p2 \in RawRecs(last.base) :
     TwoSelected(p1, p2) =>
       /\ BaseNames(LastType) = Reverse(LastType.parent_classes)
       /\ \A c1 \in SeqToSet(RawRec(last.base, p1).inherit_from), c2 \in SeqToSet(RawRec(last.base, p2).inherit_from) :
            /\ IndexOf(BaseNames(LastType), c2) < IndexOf(BaseNames(LastType), c1)
            /\ \A m \in Shared(c1, c2) : Owner(last.cls, m) = c2

\* C3 (amended): with K1 evaluated before K2 and both selected, the tuple handed to type() is the
\* accumulated list in the order of accumulation, K1's class comes before K2's, and K1's members win
\* over K2's on a name conflict (first-selected wins).
C3_FirstSelectedWins ==
  /\ Built => BaseNames(LastType) = LastType.parent_classes
  /\ Built => \A p1, p2 \in RawRecs(last.base) :
       TwoSelected(p1, p2) =>
         \A c1 \in SeqToSet(RawRec(last.base, p1).inherit_from), c2 \in SeqToSet(RawRec(last.base, p2).inherit_from) :
            /\ IndexOf(BaseNames(LastType), c1) < IndexOf(BaseNames(LastType), c2)
            /\ \A m \in Shared(c1, c2) : Owner(last.cls, m) = c1

C3_Witness ==
  /\ world = "inherit"
  /\ Built
  /\ Chosen(last.given, "opt1") /\ Chosen(last.given, "opt2")
  /\ EvaluatedBefore("O", "opt1", "opt2")
  /\ BaseNames(LastType) = <<"O", "A", "B">>
  /\ Owner(last.cls, "m1") = "A"

RECURSIVE Flatten(_)
Flatten(ss) == IF ss = <<>> THEN <<>> ELSE Head(ss) \o Flatten(Tail(ss))
UnitKeys(b, u) == [i \in 1..Len(RawUnits(b)[u].dependencies) |-> RawUnits(b)[u].dependencies[i].key]
\* the keys in the declared option order when one is declared, as they stand otherwise
InOrder(keys, order) == IF order = <<>> THEN keys ELSE SelectSeq(order, LAMBDA k : k \in SeqToSet(keys))
\* the supertypes the records of key in unit u contribute under the activation rule
Contribution(b, u, key, options) ==
  LET recs == DepRecs(RawUnits(b)[u], key)
  IN Flatten([j \in 1..Len(recs) |->
       IF ~IsInherit(recs[j]) THEN <<>>
       ELSE IF Activation(b, recs[j], key, options) = "explicit" THEN recs[j].inherit_from
       ELSE IF Activation(b, recs[j], key, options) = "default" THEN <<DefaultOf(b, recs[j])>>
       ELSE <<>>])
\* the keys of all units evaluated in one pass
EvaluatedGlobally(b, options) ==
  LET keys == InOrder(Flatten([u \in 1..Len(RawUnits(b)) |-> UnitKeys(b, u)]), RawGlobal(b).option_order)
  IN Flatten([i \in 1..Len(keys) |->
       Flatten([u \in 1..Len(RawUnits(b)) |-> Contribution(b, u, keys[i], options)])])
\* the units evaluated in the order given, the keys of each unit in one pass
EvaluatedPerUnit(b, options) ==
  Flatten([u \in 1..Len(RawUnits(b)) |->
    LET keys == InOrder(UnitKeys(b, u), RawGlobal(b).option_order)
    IN Flatten([i \in 1..Len(keys) |-> Contribution(b, u, keys[i], options)])])
BuiltRef(i) == [n |-> built_types[i].n, id |-> i]
\* the members of a statically declared supertype win over those of a dynamically added one
StaticWins(i) ==
  \A c \in SeqToSet(ClassInfo[built_types[i].n].bases), d \in SeqToSet(DynamicParents(built_types[i])) :
     \A m \in (ClassInfo[c].methods \cap ClassInfo[d].methods) \ ClassInfo[built_types[i].n].methods :
        Owner(BuiltRef(i), m) = c

\* C4 as stated: the accumulated list is the base, its static supertypes, then the dynamic supertypes in
\* key evaluation order, all keys being evaluated in the declared option order when one is declared and
\* in configuration source order otherwise.
C4_DeclaredOrderOverall ==
  \A i \in 1..Len(built_types) :
     built_types[i].parent_classes =
       <<built_types[i].n>> \o ClassInfo[built_types[i].n].bases
         \o EvaluatedGlobally(built_types[i].n, built_types[i].options)

\* C4 (amended): the accumulated list is the base, its static supertypes, then the dynamic supertypes in
\* key evaluation order; the units are evaluated in the order given and, within a unit, the keys in the
\* declared option order when one is declared and in source order otherwise.  Hence A selected before B
\* gives A's members precedence, static supertypes win over dynamic ones, and the declared order
\* (opt2, opt1) makes B precede A.
C4_DeclaredOrderPerUnit ==
  /\ \A i \in 1..Len(built_types) :
       /\ built_types[i].parent_classes =
            <<built_types[i].n>> \o ClassInfo[built_types[i].n].bases
              \o EvaluatedPerUnit(built_types[i].n, built_types[i].options)
       /\ StaticWins(i)
  /\ (Built /\ Chosen(last.given, "opt1") /\ Chosen(last.given, "opt2")) =>
       /\ world = "inherit" => BaseNames(LastType) = <<"O", "A", "B">> /\ Owner(last.cls, "m1") = "A"
       /\ world = "inherit_order" => BaseNames(LastType) = <<"O", "B", "A">> /\ Owner(last.cls, "m1") = "B"

C4_Witness ==
  /\ world = "inherit_units"
  /\ Built
  /\ Chosen(last.given, "opt1") /\ Chosen(last.given, "opt2")
  /\ LastType.parent_classes = <<"O", "B", "A">>
  /\ EvaluatedGlobally("O", last.given) = <<"A", "B">>

SpecCompose ==
  InitIn({"comp_default", "comp_after", "comp_before", "comp_marker_default"}) /\ [][Next]_vars

\* the attachments builder cb made for triple t
InjectionsOf(cb, t) == {k \in 1..Len(injections) : injections[k].cb = cb /\ injections[k].triple = t}
Triples == [cls : ClassNames, method : AllMethods, attr : {"comp"}]

SpecPatched == InitIn({"comp", "comp_after", "comp_before"}) /\ [][Next]_vars

AfterOf(b, r) ==
  Truthy(IF r.add_components_after_method # NONE THEN r.add_components_after_method
         ELSE RawGlobal(b).add_components_after_method)
StrictOf(b, r) ==
  Truthy(IF r.strict_missing_args # NONE THEN r.strict_missing_args ELSE RawGlobal(b).strict_missing_args)
\* the first execution of method m on an instance of a class returned by buildclass
FirstRun ==
  \/ FirstNew
  \/ /\ last.op = "call" /\ last.cls.id \in classes_built
     /\ count.objs = 1 /\ count.calls = 1
\* the fragment records of the class of the last operation that are bound to its method and selected
SelectedFor ==
  {p \in RawRecs(last.cls.n) :
     /\ IsComponent(RawRec(last.cls.n, p))
     /\ MethodOf(last.cls.n, RawRec(last.cls.n, p)) = last.m
     /\ Chosen(LastType.options, p.key)}
Events(e) == {k \in 1..Len(trace) : trace[k].e = e /\ trace[k].obj = last.obj /\ trace[k].m = last.m}
InjectionsFor(p) == {k \in Events("inject") : trace[k].rec = p}

\* C6: in a patched method without the marker, every selected fragment record bound to the method is
\* injected at exactly one position, before the body starts when injectAfter is false and after the
\* body has returned when it is true; the body runs exactly once between the two phases and the
\* patched method returns what the body returns.
C6_BeforeOrAfterBody ==
  (FirstRun /\ ~is_invoking_method_in_one_line(last.cls.n, last.m)) =>
     \A p \in SelectedFor :
        /\ last.exc = ""
        /\ Cardinality(Events("body_start")) = 1 /\ Cardinality(Events("body_end")) = 1
        /\ Cardinality(InjectionsFor(p)) = 1
        /\ \A k \in InjectionsFor(p) :
             IF AfterOf(last.cls.n, RawRec(last.cls.n, p))
             THEN trace[k].pos = "AFTER" /\ \A e \in Events("body_end") : e < k
             ELSE trace[k].pos = "BEFORE" /\ \A e \in Events("body_start") : k < e
        /\ last.op = "call" => last.ret = FindDefiner(last.cls.n, last.m) \o "." \o last.m

SpecMarker == InitIn({"comp_marker", "comp_marker_default"}) /\ [][Next]_vars

\* C7: a method whose body holds the marker call is not wrapped; nothing is injected before or after
\* it whatever injectAfter says, and the fragments selected for it are injected exactly when the marker
\* executes: the body before the marker sees the attribute absent, the body after it sees it present.
C7_InjectedAtMarker ==
  (FirstRun /\ is_invoking_method_in_one_line(last.cls.n, last.m)) =>
     /\ FindMethod(State, last.cls, last.m).kind = "plain"
     /\ \A k \in Events("inject") : trace[k].pos = "MIDDLE"
     /\ \A p \in SelectedFor :
          /\ last.exc = ""
          /\ Cardinality(InjectionsFor(p)) = 1
          /\ \A k \in InjectionsFor(p) :
               /\ \A e \in Events("body_start") : e < k /\ trace[k].attr \notin trace[e].seen
               /\ \A e \in Events("body_end") : k < e /\ trace[k].attr \in trace[e].seen
          /\ Cardinality(Events("body_start")) = 1 /\ Cardinality(Events("body_end")) = 1

SpecRecursive == InitIn({"rec", "rec_flat", "comp_rec", "comp_rec_flat"}) /\ [][Next]_vars

Registered(c) == c \in DOMAIN Worlds[world].reg
Recursively(b) == Truthy(RawGlobal(b).build_recursively)
\* class reference c is what a build of outer type b with options uses for the registered type F:
\* F's composite built with the same options when recursion is enabled, F itself otherwise
UsesCompositeOf(c, F, b, options) ==
  IF Recursively(b)
  THEN /\ c.n = F /\ c.id > 0
       /\ built_types[c.id].options = options
       /\ built_types[c.id].parent_classes = <<F>> \o ClassInfo[F].bases \o EvaluatedPerUnit(F, options)
  ELSE c = Orig(F)

\* C8: when a selected supertype or fragment F is itself a registered base type, the build of outer
\* type O with option set s uses F's composite built with the same s when recursion is enabled, and F
\* unmodified when recursion is disabled.
C8_NestedUsesSameOptions ==
  /\ Built =>
       \A p \in RawRecs(last.base) :
          LET r == RawRec(last.base, p)
          IN (IsInherit(r) /\ Chosen(last.given, p.key)) =>
               \A F \in {c \in SeqToSet(r.inherit_from) : Registered(c)} :
                  \E k \in 1..Len(LastType.bases) : UsesCompositeOf(LastType.bases[k], F, last.base, LastType.options)
  /\ FirstNew =>
       \A p \in SelectedFor :
          LET r == RawRec(last.cls.n, p)
          IN Registered(r.component_class) =>
               /\ last.exc = ""
               /\ r.component_attr \in DOMAIN objs[last.obj].attrs
               /\ UsesCompositeOf(objs[objs[last.obj].attrs[r.component_attr]].cls, r.component_class,
                                   last.cls.n, LastType.options)

SpecLenient == InitIn({"lenient_P2", "lenient_Q2", "strict_P2", "lenient_E"}) /\ [][Next]_vars

\* the fragment class the activation rule designates for record r
Designated(b, r, key, options) ==
  IF Activation(b, r, key, options) = "explicit" THEN r.component_class
  ELSE IF Activation(b, r, key, options) = "default" THEN DefaultOf(b, r) ELSE NONE
\* the constructor that runs for class c, NONE when c inherits object's
ConstructorOf(c) == FindDefiner(c, "__init__")
LacksArgument(c, args) == ConstructorOf(c) # NONE /\ Len(args) < MethodReq(ConstructorOf(c), "__init__")
OtherError(c) == IF ConstructorOf(c) = NONE THEN "" ELSE ClassInfo[ConstructorOf(c)].init_raises

\* C9: when the constructor of the fragment to attach still lacks a required positional argument after
\* argument adaptation, then with strictArgs false the fragment is not attached, no exception reaches
\* the caller and the triple stays not injected, and with strictArgs true (the default) the
\* missing-argument error reaches the caller; any other error of the constructor reaches the caller in
\* both modes.
C9_LenientOmitsStrictRaises ==
  FirstNew =>
    \A p \in {q \in RawRecs(last.cls.n) : IsComponent(RawRec(last.cls.n, q))
                                          /\ MethodOf(last.cls.n, RawRec(last.cls.n, q)) = "__init__"} :
       LET r == RawRec(last.cls.n, p)
           c == Designated(last.cls.n, r, p.key, LastType.options)
       IN c # NONE =>
            /\ (LacksArgument(c, last.args) /\ ~StrictOf(last.cls.n, r)) =>
                 /\ last.exc = ""
                 /\ r.component_attr \notin DOMAIN objs[last.obj].attrs
                 /\ Triple(r, "__init__") \notin component_builders[LastType.cb].COMPONENTS_APPLIED
            /\ (LacksArgument(c, last.args) /\ StrictOf(last.cls.n, r)) =>
                 last.exc = MissingArgs(ConstructorOf(c), "__init__", legacy_messages)
            /\ (~LacksArgument(c, last.args) /\ OtherError(c) # "") => last.exc = OtherError(c)

SpecPlain == InitIn({"inherit", "static", "static_flat", "comp"}) /\ [][Next]_vars

\* no dependency of b is selected by options and no default applies
NothingApplies(b, options) ==
  \A p \in RawRecs(b) : Activation(b, RawRec(b, p), p.key, options) = "nothing"
\* b has a statically declared supertype that is itself a registered base type built recursively
NestedStatic(b) == Recursively(b) /\ \E c \in SeqToSet(ClassInfo[b].bases) : Registered(c)
SameMembers(cls, b) == \A m \in AllMethods : Owner(cls, m) = Owner(Orig(b), m)
NoneAttached ==
  FirstNew /\ NothingApplies(last.cls.n, LastType.options) =>
    /\ last.exc = ""
    /\ DOMAIN objs[last.obj].attrs = {}
    /\ Events("inject") = {}

\* C10 as stated: when no dependency of B is selected and no default applies, type() is handed B
\* followed by B's static supertypes and an empty patched-method map; no supertype is added, no method
\* is wrapped, instances get no injected attribute: the composite behaves like B instantiated directly.
C10_BehavesLikeBase ==
  /\ (Built /\ NothingApplies(last.base, last.given)) =>
       /\ BaseNames(LastType) = <<last.base>> \o ClassInfo[last.base].bases
       /\ LastType.patched_methods = <<>>
       /\ SameMembers(last.cls, last.base)
  /\ NoneAttached

\* C10 (amended): when no dependency of B is selected and no default applies, type() is handed B
\* followed by B's static supertypes, each one that is a registered base type being replaced by its own
\* composite under the same options when recursion is enabled, and an empty patched-method map; no
\* supertype is added to B's list, no method of B is wrapped, instances get no injected attribute, and
\* the composite's members are B's own when no static supertype is such a registered type.
C10_BaseWithNestedStatics ==
  /\ (Built /\ NothingApplies(last.base, last.given)) =>
       /\ BaseNames(LastType) = <<last.base>> \o ClassInfo[last.base].bases
       /\ LastType.patched_methods = <<>>
       /\ LastType.bases[1] = Orig(last.base)
       /\ \A k \in 2..Len(LastType.bases) :
            IF Registered(LastType.bases[k].n)
            THEN UsesCompositeOf(LastType.bases[k], LastType.bases[k].n, last.base, LastType.options)
            ELSE LastType.bases[k] = Orig(LastType.bases[k].n)
       /\ ~NestedStatic(last.base) => SameMembers(last.cls, last.base)
  /\ NoneAttached

\* a build that selects nothing of OS while its static supertype F takes the supertype A of its own
C10_Witness ==
  /\ world = "static"
  /\ Built
  /\ NothingApplies("OS", last.given)
  /\ Chosen(last.given, "opt1")
  /\ BaseNames(LastType) = <<"OS", "F">>
  /\ LastType.bases[2].id > 0
  /\ built_types[LastType.bases[2].id].parent_classes = <<"F", "A">>

SpecPredicate == InitIn({"pred", "pred_switch"}) /\ [][Next]_vars

\* the value function key reads for parameter name: the caller's option, else the base type's attribute
Supplied(b, options, name) == IF name \in DOMAIN options THEN options[name] ELSE ClassAttr(b, name)
\* what the predicate returns on the values looked up for its formal parameters
Holds(b, key, options) ==
  Truthy(ApplyKey(key, [i \in 1..Len(func_args(key)) |-> Supplied(b, options, func_args(key)[i])]))

\* C11: a predicate key is selected exactly when the predicate returns a true value on the values
\* found for its formal parameter names in the options the caller supplied, else in the attributes of
\* the base type, else empty; also when a name it reads is configured as a switch key.
C11_PredicateReadsOptions ==
  Built =>
    \A p \in {q \in RawRecs(last.base) : q.key \in PredicateKeys} :
       Holds(last.base, p.key, last.given)
         <=> SeqToSet(RawRec(last.base, p).inherit_from) \subseteq SeqToSet(DynamicParents(LastType))

SpecShared == InitIn({"comp_multi", "comp_multi_order", "comp_multi_default"}) /\ [][Next]_vars

\* the selected records of the last operation's method that attach to attribute attr
SelectedAt(attr) == {p \in SelectedFor : RawRec(last.cls.n, p).component_attr = attr}

\* C12: when several selected fragment records target one attribute at one method and position, the
\* fragments are constructed in key-evaluation order and the attribute finally holds the fragment of
\* the last-evaluated key; the reverse option order makes the other fragment the final value.
C12_LastEvaluatedFragmentStays ==
  (FirstNew /\ Cardinality(SelectedAt("comp")) > 1) =>
     /\ last.exc = ""
     /\ \A p, q \in SelectedAt("comp") :
          EvaluatedBefore(last.cls.n, p.key, q.key) =>
            /\ InjectionsFor(p) # {} /\ InjectionsFor(q) # {}
            /\ \A i \in InjectionsFor(p), j \in InjectionsFor(q) : i < j
     /\ \A q \in SelectedAt("comp") :
          (\A p \in SelectedAt("comp") \ {q} : EvaluatedBefore(last.cls.n, p.key, q.key)) =>
             AttachedClass(last.obj, "comp") = RawRec(last.cls.n, q).component_class
     /\ world = "comp_multi" => AttachedClass(last.obj, "comp") = "B"
     /\ world = "comp_multi_order" => AttachedClass(last.obj, "comp") = "A"

SpecOptions == InitIn({"kw", "switch", "inherit"}) /\ [][Next]_vars

\* C13: a build never changes the option mapping the caller supplied: after buildclass returns or
\* fails, the caller's dict holds exactly the keys and values it held before the call.
C13_OptionsLeftAlone ==
  last.op = "build" => dicts[last.dict] = last.given

\* the keys an option set selects
SelectedKeys(options) == {k \in DOMAIN options : Truthy(options[k])}

\* C14: switch expansion of option values is idempotent: applied to an option set that a build has
\* already expanded, it selects exactly the keys selected after one application; in particular it does
\* not add the switch's default key next to a selected case.
C14_ExpansionIdempotent ==
  Built =>
    SelectedKeys(transform_options(config_map[last.base].config_manager, dicts[last.dict]))
      = SelectedKeys(dicts[last.dict])

(***************************************************************************)
(* buildcomponent: the composite of a nested class asked for by a method.  *)
(***************************************************************************)
SpecNested == InitIn({"nested"}) /\ [][Next]_vars

\* the classes that buildcomponent returned to the constructor that ran last
NestedReturned == {trace[k].cls : k \in Events("buildcomponent")}
ConstructedBy(cls) == last.op = "new" /\ last.cls = cls /\ NestedReturned # {}

\* C15: buildcomponent(F) called from a method of an instance of the composite T built from N with
\* option set s builds F with exactly s, also when N has been built with other options between T's
\* build and the call.
C15_NestedBuiltWithOwnOptions ==
  \A i \in classes_built :
     ConstructedBy(BuiltRef(i)) =>
       \A c \in NestedReturned : UsesCompositeOf(c, "F", "F", built_types[i].options)

\* C16: buildcomponent(F) called from a method of an instance of a class written in the source
\* returns F itself, whatever was built before.
C16_DirectInstanceGetsBase ==
  \A b \in Worlds[world].targets : ConstructedBy(Orig(b)) => NestedReturned = {Orig("F")}

(***************************************************************************)
(* ClassStorage: the record of the classes built.                          *)
(***************************************************************************)
\* C17: every class created by the engine, the one buildclass returns and every composite built
\* recursively for a registered supertype or fragment, is recorded in classes_built.
C17_EveryCompositeRecorded == \A i \in 1..Len(built_types) : i \in classes_built

(***************************************************************************)
(* The kinds of a dependency record.                                       *)
(***************************************************************************)
SpecKinds == InitIn({"global_kind", "comp_default", "inherit_default"}) /\ [][Next]_vars

\* the records held by the configuration manager of b
HeldRecs(b) ==
  LET units == config_map[b].config_manager.class_configs
  IN UNION {UNION {SeqToSet(units[u].dependencies[i].recs) : i \in 1..Len(units[u].dependencies)} :
            u \in 1..Len(units)}

\* C18: every dependency record of a registered class has exactly one of inherit_from and
\* component_class, as validate_class_config demands at registration, so that no build meets a
\* record with none or both.
C18_ExactlyOneKind == \A b \in DOMAIN config_map : \A rec \in HeldRecs(b) : validate_class_config(rec) = ""

(***************************************************************************)
(* The validation of a fragment record.                                    *)
(***************************************************************************)
SpecValidate == InitIn({"bad_attr", "bad_attr_default", "bad_method", "comp", "comp_default"}) /\ [][Next]_vars

ComponentErrors == {"ClassConfigMissingComponentAttr", "ClassConfigMissingComponentInjectionMethod"}
AttrOf(b, r) == IF r.component_attr # NONE THEN r.component_attr ELSE RawGlobal(b).component_attr
\* the error of record p of b as written, the global settings standing in for what it leaves unset
ComponentError(b, p) ==
  IF ~IsComponent(RawRec(b, p)) THEN ""
  ELSE IF AttrOf(b, RawRec(b, p)) \in {NONE, "s:"} THEN "ClassConfigMissingComponentAttr"
  ELSE IF FindDefiner(b, MethodOf(b, RawRec(b, p))) = NONE /\ MethodOf(b, RawRec(b, p)) # "__init__"
    THEN "ClassConfigMissingComponentInjectionMethod"
  ELSE ""
\* the records a build of b with options goes through: key selected, or a default class to fall back on
UsedBy(b, options) ==
  {p \in RawRecs(b) : Activation(b, RawRec(b, p), p.key, options) # "nothing"}

\* C19 as stated: a fragment record without attribute name, or whose injection method the base class
\* lacks, is rejected when the class is registered, so that no registered class holds one.
C19_RejectedAtRegistration ==
  \A b \in DOMAIN config_map : \A p \in RawRecs(b) : ComponentError(b, p) = ""

\* C19 amended: such a record is accepted at registration and rejected by the builds that use it
\* (its key is selected or a default class applies), with the error of the record; a build that
\* does not use it raises neither error.
C19_RejectedWhenUsed ==
  last.op = "build" =>
    IF \E p \in UsedBy(last.base, last.given) : ComponentError(last.base, p) # ""
    THEN \E p \in UsedBy(last.base, last.given) : last.exc = ComponentError(last.base, p)
    ELSE last.exc \notin ComponentErrors

C19_Witness ==
  /\ last.op = "build" /\ last.exc \in ComponentErrors
  /\ count.builds = 2
  /\ \E i \in classes_built : built_types[i].n = last.base

(***************************************************************************)
(* adapt_arguments: the arguments handed to a component's constructor.     *)
(***************************************************************************)
\* the signatures def __init__(self, param_1, optional, *args, kwonly, **kwargs) and those with
\* fewer parameters, kwonly with or without a default
ParamNames == <<"param_1", "optional">>
ArgSpecs ==
  {FullArgSpec(SubSeq(ParamNames, 1, n), va, ko, kd, vk) :
     n \in 0..Len(ParamNames), va \in BOOLEAN, ko \in SUBSET {"kwonly"}, kd \in SUBSET {"kwonly"}, vk \in BOOLEAN}
SomeArgSpecs == {f \in ArgSpecs : f.kwonlydefaults \subseteq f.kwonlyargs}
PositionalArgs == UNION {[1..n -> {"a", "b"}] : n \in 0..MaxArgs}
KeywordArgs == {[k \in D |-> "kw_" \o k] : D \in SUBSET {"param_1", "optional", "kwonly", "other"}}

InitAdapt ==
  /\ InitProgram({"comp"})
  /\ adapted \in [done : {FALSE}, func : SomeArgSpecs, args : PositionalArgs, kwargs : KeywordArgs]
  /\ running = [t \in Threads |-> Idle]
  /\ dyn = DynStart

AdaptArguments ==
  /\ ~adapted.done
  /\ LET returned(r) ==
           adapted' = [done |-> TRUE, func |-> adapted.func, args |-> adapted.args, kwargs |-> adapted.kwargs,
                       res_args |-> r.res_args, res_kwargs |-> r.res_kwargs]
     IN returned(adapt_arguments_kw(adapted.func, adapted.args, adapted.kwargs))
  /\ UNCHANGED <<program_vars, running, dyn>>

SpecAdapt == InitAdapt /\ [][AdaptArguments]_vars

\* the reference result: parameter i takes the keyword argument of its name, else the next positional
\* argument not yet used, else nothing
Unnamed(f, kwargs, i) == Cardinality({j \in 1..i : f.args[j] \notin DOMAIN kwargs})
ReferenceArgs(f, args, kwargs) ==
  IF f.varargs THEN args
  ELSE Flatten([i \in 1..Len(f.args) |->
         IF f.args[i] \in DOMAIN kwargs THEN <<kwargs[f.args[i]]>>
         ELSE IF Unnamed(f, kwargs, i) <= Len(args) THEN <<args[Unnamed(f, kwargs, i)]>>
         ELSE <<>>])
ReferenceKwargs(f, kwargs) ==
  LET remaining == IF f.varargs THEN DOMAIN kwargs ELSE DOMAIN kwargs \ SeqToSet(f.args)
  IN [k \in (IF f.varkw THEN remaining ELSE remaining \cap f.kwonlyargs) |-> kwargs[k]]

\* C20: adapt_arguments returns the reference result: the positional parameters filled from the
\* keyword argument of the same name or else from the next unused positional argument, all the
\* positional arguments for a callable taking *args, and as keywords all the remaining ones for a
\* callable taking **kwargs, otherwise those naming a keyword-only parameter, with or without default.
C20_AdaptReference ==
  adapted.done =>
    /\ adapted.res_args = ReferenceArgs(adapted.func, adapted.args, adapted.kwargs)
    /\ adapted.res_kwargs = ReferenceKwargs(adapted.func, adapted.kwargs)

(***************************************************************************)
(* The positional arguments offered to a component's constructor.          *)
(***************************************************************************)
SpecArgs == InitIn({"args_keep1", "args_keep0", "args_keep3"}) /\ [][Next]_vars

\* the arguments the record r makes of the constructor's arguments args on the instance obj
OfferedArgs(r, args, options, key, obj) ==
  (IF Truthy(r.init_args_from_option) THEN <<options[key]>> ELSE <<>>)
    \o (IF r.init_args_keep_first # NONE THEN Prefix(args, IntOf(r.init_args_keep_first)) ELSE args)
    \o SelectSeq([i \in 1..Len(r.init_args_from_self) |->
                    IF r.init_args_from_self[i] \in DOMAIN objs[obj].attrs
                    THEN objs[obj].attrs[r.init_args_from_self[i]] ELSE NONE],
                 LAMBDA v : v # NONE)

\* C21: the positional arguments offered to a component's constructor are the constructor's own,
\* cut to the first N when init_args_keep_first = N (N = 0 included), after the selected option
\* value when init_args_from_option is set, followed by the values of the attributes of
\* init_args_from_self that the instance has.
C21_OfferedArguments ==
  (last.op = "new" /\ last.exc = "" /\ last.cls.id \in classes_built) =>
     \A k \in Events("inject") :
        trace[k].args = OfferedArgs(RawRec(last.cls.n, trace[k].rec), last.args,
                                    built_types[last.cls.id].options, trace[k].rec.key, last.obj)

(***************************************************************************)
(* structured_component_type: the fragments of one attribute in one        *)
(* container.                                                              *)
(***************************************************************************)
SpecContainer == InitIn({"comp_list", "comp_list_default", "comp_dict_default"}) /\ [][Next]_vars

\* the selected records of the last operation's method, in the order of their keys
SelectedKeysInOrder ==
  SelectSeq(UnitKeys(last.cls.n, 1), LAMBDA k : \E p \in SelectedFor : p.key = k)
SelectedClass(k) == RawRec(last.cls.n, [u |-> 1, key |-> k, j |-> 1]).component_class
SelectedKey(k) == RawRec(last.cls.n, [u |-> 1, key |-> k, j |-> 1]).structured_component_key
Container == objs[objs[last.obj].attrs["comp"]]
ClassIn(c, i) == objs[c.attrs[i]].cls.n

\* C22: with a structured_component_type and several selected fragments of one attribute, the
\* attribute holds one container, made when the first fragment is injected, that holds every
\* selected fragment afterwards: in injection order in a list, under its key in a dict.
C22_OneContainerHoldsAll ==
  (FirstNew /\ Len(SelectedKeysInOrder) > 1) =>
     /\ last.exc = ""
     /\ "comp" \in DOMAIN objs[last.obj].attrs
     /\ Container.cls.n = RawGlobal(last.cls.n).structured_component_type
     /\ Container.cls.n = "list" =>
          [i \in DOMAIN Container.attrs |-> ClassIn(Container, i)] =
            [i \in 1..Len(SelectedKeysInOrder) |-> SelectedClass(SelectedKeysInOrder[i])]
     /\ Container.cls.n = "dict" =>
          /\ DOMAIN Container.attrs = {SelectedKey(SelectedKeysInOrder[i]) : i \in 1..Len(SelectedKeysInOrder)}
          /\ \A i \in 1..Len(SelectedKeysInOrder) :
               ClassIn(Container, SelectedKey(SelectedKeysInOrder[i])) = SelectedClass(SelectedKeysInOrder[i])

(***************************************************************************)
(* Calls of buildclass made by two threads.  A thread runs the statements  *)
(* of build_class and configure_class one after the other, and the other   *)
(* thread may run between any two of them; each statement reads the        *)
(* builder of the base class in ClassStorage.config_map when it runs.      *)
(***************************************************************************)
\* build_class up to ClassBuilder.__setup_class_configuration, with a new dict holding given
StartBuild(t, b, given) ==
  /\ running[t].pc = "idle"
  /\ count.builds < MaxBuilds
  /\ b \in DOMAIN config_map
  /\ LET d == Len(dicts) + 1
         stored(S1) == [S1 EXCEPT !.class_option_map = (b :> d) @@ @]
         transformed(S2) == [S2 EXCEPT !.dicts[d] = transform_options(S2.config_map[b].config_manager, @)]
     IN /\ SetState(setup_class_configuration(transformed(stored([State EXCEPT !.dicts = Append(@, given)])), b, d))
        /\ running' = [running EXCEPT ![t] = [pc |-> "setup", base |-> b, dict |-> d, cls |-> NoClass]]
  /\ last' = [NoLast EXCEPT !.op = "step", !.base = b]
  /\ count' = [count EXCEPT !.builds = @ + 1]
  /\ UNCHANGED held

\* configure_class: self.__prepare_class_dependencies()
PrepareDependencies(t) ==
  /\ running[t].pc = "setup"
  /\ LET done(r) ==
           /\ SetState(r.S)
           /\ running' = [running EXCEPT ![t].pc = IF r.exc # "" THEN "raised" ELSE "prepared"]
     IN done(prepare_class_dependencies(State, running[t].base))
  /\ last' = [NoLast EXCEPT !.op = "step", !.base = running[t].base]
  /\ UNCHANGED <<held, count>>

\* configure_class: self.__parent_class_builder.configure_parent_classes()
ConfigureParents(t) ==
  /\ running[t].pc = "prepared"
  /\ LET b == running[t].base
         done(r) ==
           /\ SetState(IF r.exc # "" THEN r.S
                       ELSE [r.S EXCEPT !.config_map[b].parent_class_builder.parent_classes_configured = r.val])
           /\ running' = [running EXCEPT ![t].pc = IF r.exc # "" THEN "raised" ELSE "configured"]
     IN done(configure_parents_from(State, b, config_map[b].parent_class_builder.parent_classes, <<>>, MaxDepth))
  /\ last' = [NoLast EXCEPT !.op = "step", !.base = running[t].base]
  /\ UNCHANGED <<held, count>>

\* configure_class: inject_components_before_or_after_methods() and type(...); build_class records the class
CreateType(t) ==
  /\ running[t].pc = "configured"
  /\ LET b == running[t].base
         cb == config_map[b].component_class_builder
         new_type(S4) ==
           [n |-> b, cb |-> cb,
            bases |-> S4.config_map[b].parent_class_builder.parent_classes_configured,
            patched_methods |-> S4.component_builders[cb].patched_methods,
            parent_classes |-> S4.config_map[b].parent_class_builder.parent_classes,
            options |-> S4.dicts[S4.config_map[b].CLASS_OPTIONS]]
         create(S4) ==
           [S4 EXCEPT !.built_types = Append(@, new_type(S4)), !.classes_built = @ \cup {Len(S4.built_types) + 1}]
     IN /\ SetState(create(inject_components_before_or_after_methods(State, cb, 1)))
        /\ running' = [running EXCEPT ![t].pc = "returned", ![t].cls = [n |-> b, id |-> Len(built_types) + 1]]
  /\ last' = [NoLast EXCEPT !.op = "step", !.base = running[t].base]
  /\ UNCHANGED <<held, count>>

NextThreads ==
  \/ \E t \in Threads, b \in Worlds[world].targets, given \in Worlds[world].optsets : StartBuild(t, b, given)
  \/ \E t \in Threads : PrepareDependencies(t)
  \/ \E t \in Threads : ConfigureParents(t)
  \/ \E t \in Threads : CreateType(t)

SpecThreads == InitIn({"inherit", "inherit_default"}) /\ [][NextThreads]_vars

\* the supertypes the options of the dict d select for base class b
SupertypesFor(b, d) == <<b>> \o ClassInfo[b].bases \o EvaluatedPerUnit(b, dicts[d])
Returned(t) == running[t].pc = "returned"
\* C23: the state of a build (option set, supertype list) is private to the call of buildclass: when two
\* calls for the same base class run interleaved statement by statement, each returns the composite its
\* own option set determines.
C23_BuildStatePrivate ==
  \A t \in Threads :
     Returned(t) =>
       BaseNames(built_types[running[t].cls.id]) = SupertypesFor(running[t].base, running[t].dict)

(***************************************************************************)
(* Dynamic inheritance: the operations on the superclasses of a class.     *)
(***************************************************************************)
DynInheriting == {"B", "D", "DSub"}
Addable == {<<>>, <<"A">>, <<"C">>, <<"A", "C">>, <<"C", "A">>}
Removable == {{"A"}, {"C"}, {"A", "DynInheritance"}, {"D"}}
\* the class has the dynparents methods while DynInheritanceBase is among its superclasses
DynOp(c, name, D) ==
  /\ dyn.ops < MaxOps
  /\ "DynInheritanceBase" \in SeqToSet(Mro(dyn.bases, c))
  /\ dyn' = [D EXCEPT !.op = name, !.cls = c, !.ops = dyn.ops + 1]
  /\ UNCHANGED <<program_vars, adapted, running>>

\* cls.dynparents_add(*parent_classes)
DynparentsAdd(c, parent_classes) == DynOp(c, "add", dyn_inherit_from(dyn, c, dyn.bases[c] \o parent_classes))

\* cls.dynparents_remove(*classes_to_remove): the classes that stay come out of a set, in any order
DynparentsRemove(c, classes_to_remove) ==
  \E parent_classes \in TuplesOf(SeqToSet(dyn.bases[c]) \ (classes_to_remove \ {"DynInheritance"})) :
     DynOp(c, "remove", dyn_inherit_from(dyn, c, parent_classes))

\* cls.dynparents_replace(*parent_classes)
DynparentsReplace(c, parent_classes) ==
  DynOp(c, "replace", dyn_inherit_from(dyn, c, <<"DynInheritance">> \o parent_classes))

\* cls.dynparents_restore()
DynparentsRestore(c) == DynOp(c, "restore", dyn_inherit_from(dyn, c, initial_bases_of(dyn, c)))

NextDyn ==
  \/ \E c \in DynInheriting, parent_classes \in Addable : DynparentsAdd(c, parent_classes)
  \/ \E c \in DynInheriting, classes_to_remove \in Removable : DynparentsRemove(c, classes_to_remove)
  \/ \E c \in DynInheriting, parent_classes \in Addable : DynparentsReplace(c, parent_classes)
  \/ \E c \in DynInheriting : DynparentsRestore(c)

SpecDyn == InitIn({"inherit"}) /\ [][NextDyn]_vars

Restored(c) == dyn.op = "restore" /\ dyn.cls = c
\* an instance of c resolves every method through the given superclasses of c
ResolvesThrough(c, parent_classes) ==
  \A m \in UNION {DynMethods[k] : k \in DOMAIN DynMethods} :
     DynOwner(dyn.bases, c, m) = DynOwner([dyn.bases EXCEPT ![c] = parent_classes], c, m)

\* C24: for a class that inherits from DynInheritance, after any sequence of dynparents_add,
\* dynparents_remove and dynparents_replace, dynparents_restore sets the superclasses of the class back
\* to exactly the tuple the class had when it was defined, and the instances of the class then resolve
\* their methods through that tuple.
C24_RestoreGivesDefinedBases ==
  \A c \in DynInheriting :
     Restored(c) => dyn.bases[c] = DefinedBases[c] /\ ResolvesThrough(c, DefinedBases[c])

SpecCyclic == InitIn({"rec_cycle", "rec"}) /\ [][Next]_vars

\* the last call of buildclass ended because the interpreter ran out of stack
RanOutOfStack == last.op = "build" /\ last.exc = "RecursionError"

\* C25: buildclass terminates for every registry, also when registered base classes name each other as
\* superclasses: the guards of the recursion (the candidate is the base class being built, the candidate
\* is already built) keep a class from being configured again while its own configuration is in
\* progress, so that no build recurses until the interpreter runs out of stack.
C25_GuardsEndRecursion == ~RanOutOfStack

\* the user constructed an instance of a class returned by buildclass
NewOfComposite == last.op = "new" /\ last.exc = "" /\ last.cls.id \in classes_built
\* the fragment records of the class that are bound to the constructor and contribute to type t
ConstructorFragments(t) ==
  {p \in RawRecs(t.n) :
     /\ IsComponent(RawRec(t.n, p))
     /\ MethodOf(t.n, RawRec(t.n, p)) = "__init__"
     /\ Activation(t.n, RawRec(t.n, p), p.key, t.options) # "nothing"}

\* C26: every instance of one composite receives its fragments: when the composite has a fragment bound
\* to the constructor, the second instance constructed gets a fragment attached as the first one did.
C26_EveryInstanceReceives ==
  NewOfComposite =>
    \A p \in ConstructorFragments(LastType) : RawRec(LastType.n, p).component_attr \in DOMAIN objs[last.obj].attrs

SpecFrame == InitIn({"marker_two", "comp_marker_default"}) /\ [][Next]_vars

\* the user called a method of an instance of a class returned by buildclass
CallOnComposite == last.op = "call" /\ last.cls.id \in classes_built
\* the fragment records bound to method m that the options of type t select or supply by default
FragmentsOf(t, m) ==
  {p \in RawRecs(t.n) :
     /\ IsComponent(RawRec(t.n, p))
     /\ MethodOf(t.n, RawRec(t.n, p)) = m
     /\ Activation(t.n, RawRec(t.n, p), p.key, t.options) # "nothing"}

\* C27: a class T1 built from base class B with options s1 keeps behaving by s1 after B is built again
\* with other options: a call on an instance of T1 attaches fragments only for the records s1 selects
\* or supplies by default, and fails for no record that s1 leaves out.
C27_LaterBuildLeavesComposite ==
  CallOnComposite =>
    /\ \A k \in Events("inject") : trace[k].rec \in FragmentsOf(LastType, last.m)
    /\ (\A p \in FragmentsOf(LastType, last.m) : DefaultOf(LastType.n, RawRec(LastType.n, p)) # NONE) =>
         last.exc # "DynConfigWrongClassType"

SpecMarkers == InitIn({"marker_xy", "comp_marker_default"}) /\ [][Next]_vars

\* the base class of the last operation was built once, it has one instance, and this is its first call
FirstCallOfOnlyBuild ==
  /\ CallOnComposite /\ last.exc = ""
  /\ Cardinality({i \in 1..Len(built_types) : built_types[i].n = LastType.n}) = 1
  /\ Cardinality({o \in 1..Len(objs) : objs[o].cls = last.cls}) = 1
  /\ count.calls = 1

\* C28: the injection at the marker is isolated per base class: after base class X was built and then
\* another base class Y whose method of the same name holds the marker too, the marker in an instance of
\* the class built from X still attaches the fragments of X's build bound to that method.
C28_MarkerIsolatedPerBase ==
  (FirstCallOfOnlyBuild /\ last.m \in ClassInfo[LastType.n].marker) =>
     \A p \in FragmentsOf(LastType, last.m) :
        RawRec(LastType.n, p).component_attr \in DOMAIN objs[last.obj].attrs

SpecUnits == InitIn({"units_local", "inherit_units"}) /\ [][Next]_vars

\* the classes created from one base class with equal options
SameBuild(i, j) == built_types[i].n = built_types[j].n /\ built_types[i].options = built_types[j].options

\* C29: building the same base class twice with equal options gives classes with the same superclasses
\* and the same injections (the same methods patched for the same keys), also when the class is
\* registered with several units of different local settings: the local settings of one unit carry over
\* neither into the records of another unit nor from one build into the next.
C29_EqualOptionsEqualBuild ==
  \A i, j \in 1..Len(built_types) :
     SameBuild(i, j) =>
       /\ BaseNames(built_types[i]) = BaseNames(built_types[j])
       /\ built_types[i].patched_methods = built_types[j].patched_methods

SpecRecSwitch == InitIn({"rec_switch", "rec"}) /\ [][Next]_vars

\* the superclasses the switches of base class b contribute under options: those of the effective cases
SwitchSupertypes(b, options) ==
  Flatten([u \in 1..Len(RawUnits(b)) |->
    Flatten([i \in 1..Len(RawUnits(b)[u].dependencies) |->
      LET e == RawUnits(b)[u].dependencies[i]
      IN Flatten([c \in 1..Len(e.cases) |->
           IF c \in EffectiveCases(e, options) THEN e.cases[c].rec.inherit_from ELSE <<>>])])])
\* what a direct build of b with options gives: the base, its static superclasses, then those of the
\* records and of the switches
DirectSupertypes(b, options) ==
  <<b>> \o ClassInfo[b].bases \o EvaluatedPerUnit(b, options) \o SwitchSupertypes(b, options)
\* the classes built recursively as superclasses of the class the last build returned
BuiltInside == {LastType.bases[k] : k \in {k \in 1..Len(LastType.bases) : LastType.bases[k].id # 0}}

\* C30: a registered class F built recursively inside build(O, s) gets the superclasses a direct
\* build(F, s) gives it, also when F's configuration has a switch on a key for which O's has none: a
\* listed case value in s selects that case for F, an omitted value fires F's default case.
C30_NestedBuiltAsDirect ==
  Built => \A f \in BuiltInside : BaseNames(built_types[f.id]) = DirectSupertypes(f.n, last.given)

=============================================================================
